---- MODULE Spec2Model ----
(***************************************************************************)
(* A model of the inter-frame path of the VP8 decoder (package vp8):       *)
(* motion vector decoding (motion.go), macroblock mode parsing and motion  *)
(* vector prediction (the predictor-mode file) and motion compensated      *)
(* prediction (interpred.go).                                              *)
(*                                                                         *)
(* The boolean decoder is outside the model: a parsing operator is handed  *)
(* the sequence of bits that readBit returns and consumes it from the      *)
(* front, in the order the code calls readBit.  The probability passed to  *)
(* readBit does not change which branch a given bit selects.               *)
(***************************************************************************)
EXTENDS Integers, Sequences, FiniteSets, TLC

VARIABLES
    mbw, mbh,          \* frame size in macroblocks (d.mbw, d.mbh)
    signBias,          \* d.signBias[0..3]
    mbx, mby,          \* position of the next macroblock to decode
    nMB,               \* macroblocks decoded so far in this frame
    leftRefFrame, leftMV,
    aboveRefFrame, aboveMV,   \* per column: the row above the current one
    upRefFrame, upMV,         \* per column: copy of the above row made at row end
    refFrame, isInterMB, mvMode, mbMV, subMV,
    fb,                \* record of the last macroblock parse (history variable)
    mvProb,            \* d.mvProb[0..1][0..18]
    nProbCalls,        \* parseMVProb calls made so far
    cl,                \* record of the last clampMV application (history variable)
    refImg,            \* the reference frame (image.YCbCr) predictions read
    ybr,               \* d.ybr, the 26 x 32 prediction workspace
    pr,                \* record of the last prediction call (history variable)
    mvRead,            \* record of the last readMV call (history variable)
    splitRead,         \* record of the last parseSplitMV call (history variable)
    probRead           \* record of the last parseMVProb call (history variable)

vars == <<mbw, mbh, signBias, mbx, mby, nMB, leftRefFrame, leftMV,
          aboveRefFrame, aboveMV, upRefFrame, upMV,
          refFrame, isInterMB, mvMode, mbMV, subMV, fb, mvProb, nProbCalls, cl, refImg, ybr, pr, mvRead, splitRead, probRead>>

(***************************************************************************)
(* Bounds of the model.                                                    *)
(***************************************************************************)
MaxMBs == 4
MaxProbCalls == 2

(***************************************************************************)
(* Program constants.                                                      *)
(***************************************************************************)
mvModeNearest == 0
mvModeNear == 1
mvModeZero == 2
mvModeNew == 3
mvModeSplit == 4

refFrameIntra == 0
refFrameLast == 1
refFrameGolden == 2
refFrameAltRef == 3

splitMV16x8 == 0
splitMV8x16 == 1
splitMV8x8 == 2
splitMV4x4 == 3

mvpIsShort == 0
mvpSign == 1
mvpShort == 2
mvpBits == 9

(***************************************************************************)
(* Fixed-width integers.                                                   *)
(***************************************************************************)
Int16(v) == ((v + 32768) % 65536) - 32768

Uint8(v) == v % 256

\* motionVector{x, y int16}
MV(x, y) == [x |-> x, y |-> y]

mvZero == MV(0, 0)

IsZeroMV(mv) == mv.x = 0 /\ mv.y = 0

\* addMV: int16 addition wraps.
addMV(a, b) == MV(Int16(a.x + b.x), Int16(a.y + b.y))

\* -candidates[i].x on int16: negation wraps.
NegMV(mv) == MV(Int16(-mv.x), Int16(-mv.y))

(***************************************************************************)
(* clampMV.  The four bounds are computed as the code computes them: the   *)
(* int product is converted to int16 and the margin is added in int16.     *)
(***************************************************************************)
ClampBounds(x, y, w, h) ==
    LET margin == Int16(16 * 4)
    IN  [minX |-> Int16(Int16((-x * 16 - 16) * 4) - margin),
         maxX |-> Int16(Int16((w - x) * 16 * 4) + margin),
         minY |-> Int16(Int16((-y * 16 - 16) * 4) - margin),
         maxY |-> Int16(Int16((h - y) * 16 * 4) + margin)]

clampMV(mv, x, y, w, h) ==
    LET b == ClampBounds(x, y, w, h)
    IN  MV(IF mv.x < b.minX THEN b.minX ELSE IF mv.x > b.maxX THEN b.maxX ELSE mv.x,
           IF mv.y < b.minY THEN b.minY ELSE IF mv.y > b.maxY THEN b.maxY ELSE mv.y)

(***************************************************************************)
(* Reading from the boolean decoder: the next bit of the sequence.  A      *)
(* reader returns its value together with the bits it did not consume.     *)
(***************************************************************************)
Drop(bs, n) == IF n >= Len(bs) THEN <<>> ELSE SubSeq(bs, n + 1, Len(bs))

BitAt(bs, i) == IF i > Len(bs) THEN 0 ELSE bs[i]

\* readMVComponent: returns [v: the component, n: the number of bits read,
\* probs: the indices into p = d.mvProb[comp] of the probabilities the bits
\* were read with, in reading order].
LongProbs ==
    << mvpIsShort, mvpBits, mvpBits + 1, mvpBits + 2,
       mvpBits + 6, mvpBits + 5, mvpBits + 4, mvpBits + 3, mvpBits + 2, mvpBits + 1,
       mvpSign >>

ShortProbs(bs) ==
    << mvpIsShort, mvpShort >>
    \o (IF BitAt(bs, 2) = 1
        THEN << mvpShort + 2, IF BitAt(bs, 3) = 1 THEN mvpShort + 4 ELSE mvpShort + 3 >>
        ELSE << mvpShort + 1, IF BitAt(bs, 3) = 1 THEN mvpShort + 5 ELSE mvpShort + 6 >>)

readMVComponent(bs) ==
    IF BitAt(bs, 1) = 1
    THEN \* long: three high bits into positions 9, 8, 7 ...
         LET hi == BitAt(bs, 2) * 512 + BitAt(bs, 3) * 256 + BitAt(bs, 4) * 128
             \* ... then the loop i = 9 down to 4 sets bit i-3: positions 6..1
             lo == BitAt(bs, 5) * 64 + BitAt(bs, 6) * 32 + BitAt(bs, 7) * 16
                   + BitAt(bs, 8) * 8 + BitAt(bs, 9) * 4 + BitAt(bs, 10) * 2
             mag == Int16(hi + lo + 8)
         IN  [v |-> IF BitAt(bs, 11) = 1 THEN Int16(-mag) ELSE mag, n |-> 11,
              probs |-> LongProbs]
    ELSE \* short: the tree of depth three
         LET mag == IF BitAt(bs, 2) = 1
                    THEN IF BitAt(bs, 3) = 1
                         THEN IF BitAt(bs, 4) = 1 THEN 7 ELSE 6
                         ELSE IF BitAt(bs, 4) = 1 THEN 5 ELSE 4
                    ELSE IF BitAt(bs, 3) = 1
                         THEN IF BitAt(bs, 4) = 1 THEN 3 ELSE 2
                         ELSE IF BitAt(bs, 4) = 1 THEN 1 ELSE 0
         IN  IF mag # 0
             THEN [v |-> IF BitAt(bs, 5) = 1 THEN Int16(-mag) ELSE mag, n |-> 5,
                   probs |-> ShortProbs(bs) \o << mvpSign >>]
             ELSE [v |-> 0, n |-> 4, probs |-> ShortProbs(bs)]

\* readMV: component 0 is read first and becomes y, component 1 becomes x.
\* comps lists the calls in order: [comp: the row of d.mvProb, at: the bits
\* read before the call, r: the result of the call].
MVOfComponentsSwapped(c0, c1) ==
    [mv |-> MV(Int16(c0.v * 4), Int16(c1.v * 4)), n |-> c0.n + c1.n,
     comps |-> << [comp |-> 0, at |-> 0, r |-> c0], [comp |-> 1, at |-> c0.n, r |-> c1] >>]
MVOfComponents(c0, c1) ==
    [mv |-> MV(Int16(c1.v * 4), Int16(c0.v * 4)), n |-> c0.n + c1.n,
     comps |-> << [comp |-> 0, at |-> 0, r |-> c0], [comp |-> 1, at |-> c0.n, r |-> c1] >>]

SecondComponent(bs, c0) == MVOfComponents(c0, readMVComponent(Drop(bs, c0.n)))

readMV(bs) == SecondComponent(bs, readMVComponent(bs))

(***************************************************************************)
(* findBestMV.  A candidate is a record [mv, ref].                         *)
(***************************************************************************)
Cand(mv, ref) == [mv |-> mv, ref |-> ref]

\* Lines 367-386: the candidates in the order LEFT, ABOVE, ABOVE-LEFT.  lRef/lMV
\* are d.leftRefFrame/d.leftMV, aRef/aMV are d.aboveRefFrame/d.aboveMV, and
\* uRef/uMV are the arrays d.upRefFrame/d.upMV.
NeighboursNoIntraCheck(x, y, lRef, lMV, aRef, aMV, uRef, uMV) ==
    (IF x > 0 THEN <<Cand(lMV, lRef)>> ELSE <<>>)
    \o (IF y > 0 THEN <<Cand(aMV, aRef)>> ELSE <<>>)
    \o (IF x > 0 /\ y > 0 THEN <<Cand(uMV[x - 1], uRef[x - 1])>> ELSE <<>>)
NeighboursAboveFirst(x, y, lRef, lMV, aRef, aMV, uRef, uMV) ==
    (IF y > 0 /\ aRef # refFrameIntra THEN <<Cand(aMV, aRef)>> ELSE <<>>)
    \o (IF x > 0 /\ lRef # refFrameIntra THEN <<Cand(lMV, lRef)>> ELSE <<>>)
    \o (IF x > 0 /\ y > 0 /\ uRef[x - 1] # refFrameIntra
        THEN <<Cand(uMV[x - 1], uRef[x - 1])>> ELSE <<>>)
Neighbours(x, y, lRef, lMV, aRef, aMV, uRef, uMV) ==
    (IF x > 0 /\ lRef # refFrameIntra THEN <<Cand(lMV, lRef)>> ELSE <<>>)
    \o (IF y > 0 /\ aRef # refFrameIntra THEN <<Cand(aMV, aRef)>> ELSE <<>>)
    \o (IF x > 0 /\ y > 0 /\ uRef[x - 1] # refFrameIntra
        THEN <<Cand(uMV[x - 1], uRef[x - 1])>> ELSE <<>>)

\* Lines 388-396: sign bias correction of one candidate.
SignCorrectNever(c, bias, cur) == c.mv
SignCorrect(c, bias, cur) ==
    IF bias[c.ref] # bias[cur] THEN NegMV(c.mv) ELSE c.mv

\* Lines 399-408: one iteration of the selection loop; acc is [nearest, near].
SelectStepNearFirst(acc, c) ==
    IF c.x # 0 \/ c.y # 0
    THEN IF IsZeroMV(acc.near)
         THEN [acc EXCEPT !.near = c]
         ELSE IF (c.x # acc.near.x \/ c.y # acc.near.y) /\ IsZeroMV(acc.nearest)
              THEN [acc EXCEPT !.nearest = c]
              ELSE acc
    ELSE acc
SelectStepNoDiff(acc, c) ==
    IF c.x # 0 \/ c.y # 0
    THEN IF IsZeroMV(acc.nearest)
         THEN [acc EXCEPT !.nearest = c]
         ELSE IF IsZeroMV(acc.near)
              THEN [acc EXCEPT !.near = c]
              ELSE acc
    ELSE acc
SelectStep(acc, c) ==
    IF c.x # 0 \/ c.y # 0
    THEN IF IsZeroMV(acc.nearest)
         THEN [acc EXCEPT !.nearest = c]
         ELSE IF (c.x # acc.nearest.x \/ c.y # acc.nearest.y) /\ IsZeroMV(acc.near)
              THEN [acc EXCEPT !.near = c]
              ELSE acc
    ELSE acc

RECURSIVE SelectLoop(_, _, _)
SelectLoop(acc, cs, i) ==
    IF i > Len(cs) THEN acc ELSE SelectLoop(SelectStep(acc, cs[i]), cs, i + 1)

BestResult(r, cs, nb) ==
    [nearest |-> r.nearest, near |-> r.near, cands |-> cs, nb |-> nb]

BestOfCorrected(cs, nb) ==
    BestResult(SelectLoop([nearest |-> mvZero, near |-> mvZero], cs, 1), cs, nb)

BestOfNeighbours(nb, bias, cur) ==
    BestOfCorrected([i \in 1..Len(nb) |-> SignCorrect(nb[i], bias, cur)], nb)

\* findBestMV: [nearest, near, cands, nb] where nb are the candidates as
\* collected and cands the candidates after sign bias correction.
findBestMV(x, y, lRef, lMV, aRef, aMV, uRef, uMV, bias, cur) ==
    BestOfNeighbours(Neighbours(x, y, lRef, lMV, aRef, aMV, uRef, uMV), bias, cur)

(***************************************************************************)
(* SPLITMV tables.                                                         *)
(***************************************************************************)
subMVLeft == 0
subMVAbove == 1
subMVZero == 2
subMVNew == 3

mbSplitCount == <<2, 2, 4, 16>>      \* indexed by splitType + 1

\* mbSplitFillOffset[splitType + 1][p + 1]: the blocks of partition p.  The
\* entries past mbSplitFillCount are not listed.
mbSplitFillOffsetReordered ==
    << << <<8, 9, 10, 11, 12, 13, 14, 15>>, <<0, 1, 2, 3, 4, 5, 6, 7>> >>,
       << <<2, 3, 6, 7, 10, 11, 14, 15>>, <<0, 1, 4, 5, 8, 9, 12, 13>> >>,
       << <<10, 11, 14, 15>>, <<2, 3, 6, 7>>, <<8, 9, 12, 13>>, <<0, 1, 4, 5>> >>,
       << <<0>>, <<1>>, <<2>>, <<3>>, <<4>>, <<5>>, <<6>>, <<7>>,
          <<8>>, <<9>>, <<10>>, <<11>>, <<12>>, <<13>>, <<14>>, <<15>> >> >>
mbSplitFillOffset ==
    << << <<0, 1, 2, 3, 4, 5, 6, 7>>, <<8, 9, 10, 11, 12, 13, 14, 15>> >>,
       << <<0, 1, 4, 5, 8, 9, 12, 13>>, <<2, 3, 6, 7, 10, 11, 14, 15>> >>,
       << <<0, 1, 4, 5>>, <<2, 3, 6, 7>>, <<8, 9, 12, 13>>, <<10, 11, 14, 15>> >>,
       << <<0>>, <<1>>, <<2>>, <<3>>, <<4>>, <<5>>, <<6>>, <<7>>,
          <<8>>, <<9>>, <<10>>, <<11>>, <<12>>, <<13>>, <<14>>, <<15>> >> >>

\* getSubMVContext
getSubMVContext(left, above) ==
    IF left.x = above.x /\ left.y = above.y THEN 4
    ELSE IF IsZeroMV(left) /\ IsZeroMV(above) THEN 3
    ELSE IF IsZeroMV(above) THEN 2
    ELSE IF IsZeroMV(left) THEN 1
    ELSE 0

\* Lines 238-246: the partition type, [t: splitType, n: bits read].
\* probs holds the probabilities the bits were read with.
mbSplitProb == <<110, 111, 150>>

SplitTypeOfSwapped(bs) ==
    IF BitAt(bs, 1) = 0 THEN [t |-> splitMV4x4, n |-> 1, probs |-> SubSeq(mbSplitProb, 1, 1)]
    ELSE IF BitAt(bs, 2) = 0
    THEN [t |-> splitMV8x8, n |-> 2, probs |-> SubSeq(mbSplitProb, 1, 2)]
    ELSE IF BitAt(bs, 3) = 0 THEN [t |-> splitMV8x16, n |-> 3, probs |-> mbSplitProb]
    ELSE [t |-> splitMV16x8, n |-> 3, probs |-> mbSplitProb]
SplitTypeOf(bs) ==
    IF BitAt(bs, 1) = 0 THEN [t |-> splitMV4x4, n |-> 1, probs |-> SubSeq(mbSplitProb, 1, 1)]
    ELSE IF BitAt(bs, 2) = 0
    THEN [t |-> splitMV8x8, n |-> 2, probs |-> SubSeq(mbSplitProb, 1, 2)]
    ELSE IF BitAt(bs, 3) = 0 THEN [t |-> splitMV16x8, n |-> 3, probs |-> mbSplitProb]
    ELSE [t |-> splitMV8x16, n |-> 3, probs |-> mbSplitProb]

\* Lines 285-299: the left and above MVs of the partition whose first block
\* is firstBlock.
LeftOf(sub, firstBlock, leftMVs) ==
    IF firstBlock % 4 = 0 THEN leftMVs[firstBlock \div 4] ELSE sub[firstBlock - 1]

AboveOf(sub, firstBlock, aboveMVs) ==
    IF firstBlock \div 4 = 0 THEN aboveMVs[firstBlock % 4] ELSE sub[firstBlock - 4]

\* Lines 302-320: the sub-MV of one partition before clamping, [mv, n, ctx].
ReadNew(d, nearest, ctx) ==
    [mv |-> addMV(nearest, d.mv), n |-> 3 + d.n, ctx |-> ctx, mode |-> subMVNew]

readSubMV(bs, lmv, amv, nearest) ==
    IF BitAt(bs, 1) = 0
    THEN [mv |-> lmv, n |-> 1, ctx |-> getSubMVContext(lmv, amv), mode |-> subMVLeft]
    ELSE IF BitAt(bs, 2) = 0
    THEN [mv |-> amv, n |-> 2, ctx |-> getSubMVContext(lmv, amv), mode |-> subMVAbove]
    ELSE IF BitAt(bs, 3) = 0
    THEN [mv |-> mvZero, n |-> 3, ctx |-> getSubMVContext(lmv, amv), mode |-> subMVZero]
    ELSE ReadNew(readMV(Drop(bs, 3)), nearest, getSubMVContext(lmv, amv))

\* Lines 325-330: every block of the partition gets the same MV.
FillPartitionFirstOnly(sub, blocks, smv) ==
    [b \in 0..15 |-> IF blocks[1] = b THEN smv ELSE sub[b]]
FillPartition(sub, blocks, smv) ==
    [b \in 0..15 |-> IF \E i \in 1..Len(blocks) : blocks[i] = b THEN smv ELSE sub[b]]

\* Lines 277-331: partitions p, p+1, ... of the loop.  sub is d.subMV, bs the
\* unread bits, n the number of bits read so far.
\* What one pass of the loop did: the partition p, its first block, the
\* bits read before it (at) and for it (n), the sub-MV mode, the left and
\* above MVs, the sub-MV before (raw) and after (mv) clamping and the blocks
\* that were assigned.
PartitionRecord(p, firstBlock, blocks, at, rd, lmv, amv, smv) ==
    [p |-> p, first |-> firstBlock, blocks |-> blocks, at |-> at, n |-> rd.n,
     mode |-> rd.mode, left |-> lmv, above |-> amv, raw |-> rd.mv, mv |-> smv]

RECURSIVE SplitLoop(_, _, _, _, _, _, _, _, _, _, _, _, _)
SplitPartition(p, t, sub, bs, n, rd, lmv, amv, smv, leftMVs, aboveMVs, nearest, x, y, w, h, parts) ==
    SplitLoop(p + 1, t,
              FillPartition(sub, mbSplitFillOffset[t + 1][p + 1], smv),
              Drop(bs, rd.n), n + rd.n, leftMVs, aboveMVs, nearest, x, y, w, h,
              Append(parts, PartitionRecord(p, mbSplitFillOffset[t + 1][p + 1][1],
                                            mbSplitFillOffset[t + 1][p + 1],
                                            n, rd, lmv, amv, smv)))

SplitRead(p, t, sub, bs, n, rd, lmv, amv, leftMVs, aboveMVs, nearest, x, y, w, h, parts) ==
    SplitPartition(p, t, sub, bs, n, rd, lmv, amv, clampMV(rd.mv, x, y, w, h),
                   leftMVs, aboveMVs, nearest, x, y, w, h, parts)

SplitContext(p, t, sub, bs, n, lmv, amv, leftMVs, aboveMVs, nearest, x, y, w, h, parts) ==
    SplitRead(p, t, sub, bs, n, readSubMV(bs, lmv, amv, nearest), lmv, amv,
              leftMVs, aboveMVs, nearest, x, y, w, h, parts)

SplitLoop(p, t, sub, bs, n, leftMVs, aboveMVs, nearest, x, y, w, h, parts) ==
    IF p >= mbSplitCount[t + 1] THEN [sub |-> sub, n |-> n, parts |-> parts]
    ELSE SplitContext(p, t, sub, bs, n,
                      LeftOf(sub, mbSplitFillOffset[t + 1][p + 1][1], leftMVs),
                      AboveOf(sub, mbSplitFillOffset[t + 1][p + 1][1], aboveMVs),
                      leftMVs, aboveMVs, nearest, x, y, w, h, parts)

\* Line 335: the macroblock's representative MV.
RepresentativeFirst(sub) == sub[0]
Representative(sub) == sub[15]

SplitResult(r, t) ==
    [subMV |-> r.sub, mbMV |-> Representative(r.sub), n |-> r.n, splitType |-> t.t,
     typeBits |-> t.n, typeProbs |-> t.probs, parts |-> r.parts]

SplitWithType(st, bs, x, y, nearest, lRef, lMV, aRef, aMV, w, h) ==
    SplitResult(
        SplitLoop(0, st.t, [b \in 0..15 |-> mvZero], Drop(bs, st.n), st.n,
                  [r \in 0..3 |-> IF x > 0 /\ lRef # refFrameIntra THEN lMV ELSE mvZero],
                  [c \in 0..3 |-> IF y > 0 /\ aRef # refFrameIntra THEN aMV ELSE mvZero],
                  nearest, x, y, w, h, <<>>),
        st)

\* parseSplitMV: [subMV, mbMV, n, splitType].
parseSplitMV(bs, x, y, nearest, lRef, lMV, aRef, aMV, w, h) ==
    SplitWithType(SplitTypeOf(bs), bs, x, y, nearest, lRef, lMV, aRef, aMV, w, h)

\* parseRefFrame: [ref, n].
parseRefFrame(bs) ==
    IF BitAt(bs, 1) = 0 THEN [ref |-> refFrameLast, n |-> 1]
    ELSE IF BitAt(bs, 2) = 0 THEN [ref |-> refFrameGolden, n |-> 2]
    ELSE [ref |-> refFrameAltRef, n |-> 2]

\* mvModeProb, indexed by [nearest_mv == 0][near_mv == 0] (from 0 in the
\* source, from 1 here).
mvModeProb ==
    << << <<7, 1, 1, 143>>, <<14, 18, 14, 107>> >>,
       << <<135, 145, 67, 106>>, <<8, 75, 40, 155>> >> >>

btou(b) == IF b THEN 1 ELSE 0

\* The row of mvModeProb that parseMVMode reads its mode bits with.
ModeProbRowSwapped(nearest, near) ==
    mvModeProb[btou(near = mvZero) + 1][btou(nearest = mvZero) + 1]
ModeProbRow(nearest, near) ==
    mvModeProb[btou(nearest = mvZero) + 1][btou(near = mvZero) + 1]

\* What parseMVMode leaves behind: the fields of the decoder it assigns, the
\* number of bits it read, and what it computed on the way.  tree holds the
\* bits of the mode tree, probs the probabilities they were read with and
\* delta the result of readMV (NEW).  clampIn is the
\* argument of the clampMV call that produced mbMV (NEAREST, NEAR, NEW).
ModeResult(best, mode, mv, n, clampIn, sub, splitType, tree, delta) ==
    [mvMode |-> mode, mbMV |-> mv, n |-> n, subMV |-> sub,
     tree |-> tree, probs |-> SubSeq(ModeProbRow(best.nearest, best.near), 1, Len(tree)),
     delta |-> delta,
     nearest |-> best.nearest, near |-> best.near,
     cands |-> best.cands, nb |-> best.nb,
     clampIn |-> clampIn, splitType |-> splitType]

ModeNew(best, d, sum, x, y, sub, w, h) ==
    ModeResult(best, mvModeNew, clampMV(sum, x, y, w, h), 4 + d.n, sum, sub, -1, <<1, 1, 1, 0>>, d.mv)

ModeSplit(best, s) ==
    ModeResult(best, mvModeSplit, s.mbMV, 4 + s.n, mvZero, s.subMV, s.splitType,
               <<1, 1, 1, 1>>, mvZero)

\* Lines 203-230, with best the result of findBestMV.
ModeWithBest(bs, best, d, x, y, lRef, lMV, aRef, aMV, sub, w, h) ==
    IF BitAt(bs, 1) = 0
    THEN ModeResult(best, mvModeZero, mvZero, 1, mvZero, sub, -1, <<0>>, mvZero)
    ELSE IF BitAt(bs, 2) = 0
    THEN ModeResult(best, mvModeNearest, clampMV(best.nearest, x, y, w, h), 2,
                    best.nearest, sub, -1, <<1, 0>>, mvZero)
    ELSE IF BitAt(bs, 3) = 0
    THEN ModeResult(best, mvModeNear, clampMV(best.near, x, y, w, h), 3,
                    best.near, sub, -1, <<1, 1, 0>>, mvZero)
    ELSE IF BitAt(bs, 4) = 0
    THEN ModeNew(best, d, addMV(best.nearest, d.mv), x, y, sub, w, h)
    ELSE ModeSplit(best, parseSplitMV(Drop(bs, 4), x, y, best.nearest,
                                      lRef, lMV, aRef, aMV, w, h))

\* parseMVMode for a macroblock whose reference frame is cur; sub is d.subMV
\* before the call.
parseMVMode(bs, x, y, lRef, lMV, aRef, aMV, uRef, uMV, bias, cur, sub, w, h) ==
    ModeWithBest(bs, findBestMV(x, y, lRef, lMV, aRef, aMV, uRef, uMV, bias, cur),
                 readMV(Drop(bs, 4)), x, y, lRef, lMV, aRef, aMV, sub, w, h)

(***************************************************************************)
(* The bits handed to the parser.  Each input is the bit sequence of one   *)
(* macroblock, written out branch by branch.                               *)
(***************************************************************************)
\* One MV component: 0, +1, +2 (short), +1030 and -1030 (long).
CompZero == <<0, 0, 0, 0>>
CompPlus1 == <<0, 0, 0, 1, 0>>
CompMinus1 == <<0, 0, 0, 1, 1>>
CompPlus2 == <<0, 0, 1, 0, 0>>
CompLongPlus == <<1, 1, 1, 1, 1, 1, 1, 1, 1, 1, 0>>
CompLongMinus == <<1, 1, 1, 1, 1, 1, 1, 1, 1, 1, 1>>

\* A motion vector: component 0 (y) then component 1 (x).
MVPlus4X == CompZero \o CompPlus1
MVPlus8X == CompZero \o CompPlus2
MVMinus4Y == CompMinus1 \o CompZero
MVLongMinus == CompLongMinus \o CompLongMinus
MVLongPlus == CompLongPlus \o CompLongPlus

\* The sub-MV mode of one partition.
SubLeft == <<0>>
SubAbove == <<1, 0>>
SubZero == <<1, 1, 0>>
SubNewA == <<1, 1, 1>> \o CompPlus1 \o CompMinus1
SubNewB == <<1, 1, 1>> \o CompLongMinus \o CompPlus2

\* The sub-MV modes of the partitions of a macroblock, repeated cyclically.
PatternA == <<SubNewA, SubLeft, SubAbove, SubZero, SubNewB>>
PatternB == <<SubAbove, SubNewB, SubLeft>>

RECURSIVE PatternBits(_, _, _)
PatternBits(pat, p, count) ==
    IF p >= count THEN <<>>
    ELSE pat[(p % Len(pat)) + 1] \o PatternBits(pat, p + 1, count)

Split4x4(pat) == <<0>> \o PatternBits(pat, 0, 16)
Split8x8(pat) == <<1, 0>> \o PatternBits(pat, 0, 4)
Split16x8(pat) == <<1, 1, 0>> \o PatternBits(pat, 0, 2)
Split8x16(pat) == <<1, 1, 1>> \o PatternBits(pat, 0, 2)

ModeZeroBits == <<0>>
ModeNearestBits == <<1, 0>>
ModeNearBits == <<1, 1, 0>>
ModeNewBits(m) == <<1, 1, 1, 0>> \o m
ModeSplitBits(sp) == <<1, 1, 1, 1>> \o sp

IntraBits == <<1>>
InterLast(m) == <<0, 0>> \o m
InterGolden(m) == <<0, 1, 0>> \o m
InterAltRef(m) == <<0, 1, 1>> \o m

\* The macroblocks of a small frame.
MBInputs ==
    { IntraBits }
    \cup { InterLast(m) : m \in
             { ModeZeroBits, ModeNearestBits, ModeNearBits,
               ModeNewBits(MVPlus4X), ModeNewBits(MVMinus4Y), ModeNewBits(MVLongMinus),
               ModeSplitBits(Split4x4(PatternA)), ModeSplitBits(Split8x8(PatternB)),
               ModeSplitBits(Split16x8(PatternA)), ModeSplitBits(Split8x16(PatternB)) } }
    \cup { InterGolden(m) : m \in
             { ModeZeroBits, ModeNearestBits, ModeNearBits,
               ModeNewBits(MVPlus8X), ModeNewBits(MVLongPlus),
               ModeSplitBits(Split8x8(PatternA)) } }
    \cup { InterAltRef(m) : m \in { ModeNearestBits, ModeNewBits(MVPlus4X) } }

\* The macroblocks of a wide frame.
WideInputs ==
    { IntraBits, InterLast(ModeZeroBits), InterLast(ModeNearestBits),
      InterLast(ModeNewBits(MVPlus4X)), InterLast(ModeNewBits(MVLongMinus)),
      InterGolden(ModeNearestBits), InterGolden(ModeNearBits),
      InterGolden(ModeSplitBits(Split16x8(PatternA))) }

\* Frame sizes in macroblocks.  The small frames are decoded whole; of the
\* wide frames (8176 and 8192 pixels) the first macroblocks are decoded.
FrameSizes == { <<1, 1>>, <<2, 1>>, <<3, 1>>, <<1, 2>>, <<2, 2>> }

WideFrameSizes == { <<511, 1>>, <<512, 2>> }

\* d.signBias: the flags of GOLDEN and ALTREF come from the frame header.
SignBiasChoices ==
    { [r \in 0..3 |-> (r = refFrameGolden /\ ga[1]) \/ (r = refFrameAltRef /\ ga[2])] :
        ga \in { <<FALSE, FALSE>>, <<TRUE, FALSE>>, <<FALSE, TRUE>> } }

defaultMVProb ==
    << <<162, 128, 225, 146, 172, 147, 214, 39, 156, 128, 129, 132, 75, 145,
         178, 206, 239, 254, 254>>,
       <<164, 128, 204, 170, 119, 235, 140, 230, 228, 128, 130, 130, 74, 148,
         180, 203, 236, 254, 254>> >>

NoParse ==
    [done |-> FALSE, inter |-> FALSE, x |-> 0, y |-> 0, cur |-> refFrameIntra,
     nearest |-> mvZero, near |-> mvZero, cands |-> <<>>, nb |-> <<>>,
     clampIn |-> mvZero, splitType |-> -1, tree |-> <<>>, probs |-> <<>>, delta |-> mvZero,
     left |-> [inc |-> FALSE, ref |-> refFrameIntra, mv |-> mvZero],
     above |-> [inc |-> FALSE, ref |-> refFrameIntra, mv |-> mvZero],
     aboveLeft |-> [inc |-> FALSE, ref |-> refFrameIntra, mv |-> mvZero],
     rowEnd |-> FALSE]

\* No reference frame: getRefFrame returns nil.
NoRef == [present |-> FALSE, maxX |-> 0, maxY |-> 0, yStride |-> 0,
          cStride |-> 0, cRows |-> 0, pat |-> 0, grad |-> 0, flat |-> FALSE]

\* d.ybr is a [26][32]uint8 array, zero when the decoder is created.
ZeroWorkspace == [r \in 0..25 |-> [c \in 0..31 |-> 0]]

NoPrediction == [done |-> FALSE, kind |-> "none", mv |-> mvZero,
                 x |-> 0, y |-> 0, blockRow |-> 0, blockCol |-> 0,
                 before |-> ZeroWorkspace]

NoSplit ==
    [done |-> FALSE, bits |-> <<>>, x |-> 0, y |-> 0, nearest |-> mvZero,
     before |-> [b \in 0..15 |-> mvZero], splitType |-> -1, typeBits |-> 0,
     typeProbs |-> <<>>,
     parts |-> <<>>, subMV |-> [b \in 0..15 |-> mvZero], n |-> 0]

NoProbRead == [done |-> FALSE, bits |-> <<>>, before |-> <<>>, visits |-> <<>>, n |-> 0]

NoRead == [done |-> FALSE, bits |-> <<>>, mv |-> mvZero, n |-> 0, comps |-> <<>>]

NoClamp == [done |-> FALSE, in |-> mvZero, out |-> mvZero,
            x |-> 0, y |-> 0, w |-> 1, h |-> 1]

\* The decoder at the start of a frame: no neighbour is inter-coded.
InitDecoder ==
    /\ signBias \in SignBiasChoices
    /\ mbx = 0 /\ mby = 0 /\ nMB = 0
    /\ leftRefFrame = refFrameIntra /\ leftMV = mvZero
    /\ aboveRefFrame = [c \in 0..(mbw - 1) |-> refFrameIntra]
    /\ aboveMV = [c \in 0..(mbw - 1) |-> mvZero]
    /\ upRefFrame = [c \in 0..(mbw - 1) |-> refFrameIntra]
    /\ upMV = [c \in 0..(mbw - 1) |-> mvZero]
    /\ refFrame = refFrameIntra /\ isInterMB = FALSE
    /\ mvMode = mvModeNearest /\ mbMV = mvZero
    /\ subMV = [b \in 0..15 |-> mvZero]
    /\ fb = NoParse
    /\ mvProb = defaultMVProb /\ nProbCalls = 0
    /\ cl = NoClamp
    /\ refImg = NoRef
    /\ ybr = ZeroWorkspace
    /\ pr = NoPrediction
    /\ mvRead = NoRead
    /\ splitRead = NoSplit
    /\ probRead = NoProbRead

Init ==
    /\ \E fs \in FrameSizes : mbw = fs[1] /\ mbh = fs[2]
    /\ InitDecoder

(***************************************************************************)
(* parseMBModeInter for the macroblock at (mbx, mby), followed by the      *)
(* neighbour context update of the macroblock loop.                        *)
(***************************************************************************)
\* parseMBModeInter: the decoder fields it assigns, and the bits it read.
InterResult(r, m) ==
    [inter |-> TRUE, refFrame |-> r.ref, mvMode |-> m.mvMode,
     mbMV |-> m.mbMV, subMV |-> m.subMV, n |-> 1 + r.n + m.n,
     nearest |-> m.nearest, near |-> m.near, cands |-> m.cands,
     nb |-> m.nb, clampIn |-> m.clampIn, splitType |-> m.splitType,
     tree |-> m.tree, probs |-> m.probs, delta |-> m.delta]

InterWithRef(bs, r) ==
    InterResult(r, parseMVMode(Drop(bs, 1 + r.n), mbx, mby,
                               leftRefFrame, leftMV,
                               aboveRefFrame[mbx], aboveMV[mbx],
                               upRefFrame, upMV, signBias, r.ref, subMV, mbw, mbh))

parseMBModeInter(bs) ==
    IF BitAt(bs, 1) = 1
    THEN [inter |-> FALSE, refFrame |-> refFrameIntra, mvMode |-> mvMode,
          mbMV |-> mbMV, subMV |-> subMV, n |-> 1,
          nearest |-> mvZero, near |-> mvZero, cands |-> <<>>, nb |-> <<>>,
          clampIn |-> mvZero, splitType |-> -1, tree |-> <<>>, probs |-> <<>>, delta |-> mvZero]
    ELSE InterWithRef(bs, parseRefFrame(Drop(bs, 1)))

\* The neighbour context after the macroblock at column x was decoded with
\* reference frame ref and MV mv: [leftRefFrame, leftMV, aboveRefFrame,
\* aboveMV, upRefFrame, upMV].
UpdateNeighbours(x, ref, mv) ==
    LET aRef == [aboveRefFrame EXCEPT ![x] = ref]
        aMV  == [aboveMV EXCEPT ![x] = mv]
        rowEnd == (x = mbw - 1)
    IN  [leftRefFrame |-> IF rowEnd THEN refFrameIntra ELSE ref,
         leftMV |-> mv,
         aboveRefFrame |-> aRef, aboveMV |-> aMV,
         upRefFrame |-> IF rowEnd THEN aRef ELSE upRefFrame,
         upMV |-> IF rowEnd THEN aMV ELSE upMV]

DecodeMB(bits) ==
    /\ nMB < MaxMBs
    /\ mby < mbh
    /\ \E r \in {parseMBModeInter(bits)} :
       \E u \in {UpdateNeighbours(mbx, r.refFrame, r.mbMV)} :
           /\ r.n = Len(bits)
           /\ isInterMB' = r.inter
           /\ refFrame' = r.refFrame
           /\ mvMode' = r.mvMode
           /\ mbMV' = r.mbMV
           /\ subMV' = r.subMV
           /\ leftRefFrame' = u.leftRefFrame
           /\ leftMV' = u.leftMV
           /\ aboveRefFrame' = u.aboveRefFrame
           /\ aboveMV' = u.aboveMV
           /\ upRefFrame' = u.upRefFrame
           /\ upMV' = u.upMV
           /\ fb' = [done |-> TRUE, inter |-> r.inter, x |-> mbx, y |-> mby,
                     cur |-> r.refFrame,
                     nearest |-> r.nearest, near |-> r.near,
                     cands |-> r.cands, nb |-> r.nb,
                     clampIn |-> r.clampIn, splitType |-> r.splitType,
                     tree |-> r.tree, probs |-> r.probs, delta |-> r.delta,
                     left |-> [inc |-> mbx > 0 /\ leftRefFrame # refFrameIntra,
                               ref |-> leftRefFrame, mv |-> leftMV],
                     above |-> [inc |-> mby > 0 /\ aboveRefFrame[mbx] # refFrameIntra,
                                ref |-> aboveRefFrame[mbx], mv |-> aboveMV[mbx]],
                     aboveLeft |->
                        IF mbx > 0
                        THEN [inc |-> mby > 0 /\ upRefFrame[mbx - 1] # refFrameIntra,
                              ref |-> upRefFrame[mbx - 1], mv |-> upMV[mbx - 1]]
                        ELSE [inc |-> FALSE, ref |-> refFrameIntra, mv |-> mvZero],
                     rowEnd |-> (mbx = mbw - 1)]
    /\ nMB' = nMB + 1
    /\ IF mbx = mbw - 1
       THEN mbx' = 0 /\ mby' = mby + 1
       ELSE mbx' = mbx + 1 /\ mby' = mby
    /\ UNCHANGED <<mbw, mbh, signBias, mvProb, nProbCalls, cl, refImg, ybr, pr, mvRead, splitRead, probRead>>

Next == \E bits \in MBInputs : DecodeMB(bits)

Spec == Init /\ [][Next]_vars

\* The first macroblocks of a wide frame.
InitWide ==
    /\ \E fs \in WideFrameSizes : mbw = fs[1] /\ mbh = fs[2]
    /\ InitDecoder

NextWide == \E bits \in WideInputs : DecodeMB(bits)

SpecWide == InitWide /\ [][NextWide]_vars

(***************************************************************************)
(* clampMV on its own: the frame size, the position and the vector are     *)
(* drawn from sets that hold the ends of the ranges.                       *)
(***************************************************************************)
\* Frame dimensions in macroblocks; a VP8 dimension has 14 bits, which gives
\* at most 1024 macroblocks.
ClampDims == { 1, 2, 510, 511, 512, 1024 }

ClampComponents == { -32768, -4120, -129, -128, 0, 4, 192, 193, 4120, 32767 }

ClampPositions(n) == { p \in { 0, 1, 510, 511, n - 2, n - 1 } : 0 <= p /\ p < n }

InitClamp ==
    /\ mbw \in ClampDims /\ mbh \in { 1, 512 }
    /\ InitDecoder

ApplyClamp(mv, x, y) ==
    /\ ~cl.done
    /\ cl' = [done |-> TRUE, in |-> mv, out |-> clampMV(mv, x, y, mbw, mbh),
              x |-> x, y |-> y, w |-> mbw, h |-> mbh]
    /\ UNCHANGED <<mbw, mbh, signBias, mbx, mby, nMB, leftRefFrame, leftMV,
                   aboveRefFrame, aboveMV, upRefFrame, upMV,
                   refFrame, isInterMB, mvMode, mbMV, subMV, fb, mvProb, nProbCalls,
                   refImg, ybr, pr, mvRead, splitRead, probRead>>

NextClamp ==
    \E cx \in ClampComponents, cy \in { -32768, 0, 32767 },
       x \in ClampPositions(mbw), y \in ClampPositions(mbh) :
        ApplyClamp(MV(cx, cy), x, y)

SpecClamp == InitClamp /\ [][NextClamp]_vars

(***************************************************************************)
(* parseMVProb.                                                            *)
(***************************************************************************)
\* readUint(uniformProb, 7): seven bits, the most significant first.
readUint7(bs) ==
    BitAt(bs, 1) * 64 + BitAt(bs, 2) * 32 + BitAt(bs, 3) * 16 + BitAt(bs, 4) * 8
    + BitAt(bs, 5) * 4 + BitAt(bs, 6) * 2 + BitAt(bs, 7)

\* Lines 48-51: the new value of an updated entry, from the 7-bit value read.
NewProbNoCoerce(v) == Uint8(Uint8(v) * 2)
NewProb(v) ==
    IF Uint8(Uint8(v) * 2) = 0 THEN 1 ELSE Uint8(Uint8(v) * 2)

\* Lines 45-54: entries k, k+1, ... of the 38, entry k being [k \div 19][k % 19].
\* visits lists what each pass did: the entry [i][j], the bits read before it
\* (at), the probability of its flag, the flag and the 7-bit value read.
mvUpdateProb ==
    << <<237, 246, 253, 253, 254, 254, 254, 254, 254, 254, 254, 254, 254, 254,
         250, 250, 252, 254, 254>>,
       <<231, 243, 245, 253, 254, 254, 254, 254, 254, 254, 254, 254, 254, 254,
         251, 251, 254, 254, 254>> >>

ProbVisit(k, at, flag, v) ==
    [i |-> k \div 19, j |-> k % 19, at |-> at,
     prob |-> mvUpdateProb[(k \div 19) + 1][(k % 19) + 1], flag |-> flag, v |-> v]

RECURSIVE ProbLoop(_, _, _, _, _)
ProbLoopColumnFirst(k, tab, bs, n, visits) ==
    IF k >= 38 THEN [tab |-> tab, n |-> n, visits |-> visits]
    ELSE IF BitAt(bs, 1) = 1
    THEN ProbLoop(k + 1,
                  [tab EXCEPT ![(k % 2) + 1][(k \div 2) + 1] =
                       NewProb(readUint7(Drop(bs, 1)))],
                  Drop(bs, 8), n + 8,
                  Append(visits, ProbVisit(k, n, 1, readUint7(Drop(bs, 1)))))
    ELSE ProbLoop(k + 1, tab, Drop(bs, 1), n + 1, Append(visits, ProbVisit(k, n, 0, 0)))
ProbLoop(k, tab, bs, n, visits) ==
    IF k >= 38 THEN [tab |-> tab, n |-> n, visits |-> visits]
    ELSE IF BitAt(bs, 1) = 1
    THEN ProbLoop(k + 1,
                  [tab EXCEPT ![(k \div 19) + 1][(k % 19) + 1] =
                       NewProb(readUint7(Drop(bs, 1)))],
                  Drop(bs, 8), n + 8,
                  Append(visits, ProbVisit(k, n, 1, readUint7(Drop(bs, 1)))))
    ELSE ProbLoop(k + 1, tab, Drop(bs, 1), n + 1, Append(visits, ProbVisit(k, n, 0, 0)))

\* parseMVProb: [tab: d.mvProb afterwards, n: bits read, visits].
parseMVProb(tab, bs) == ProbLoop(0, tab, bs, 0, <<>>)

\* The bits of one call: the entries in upd are updated with the 7-bit value v.
Bits7(v) ==
    << (v \div 64) % 2, (v \div 32) % 2, (v \div 16) % 2, (v \div 8) % 2,
       (v \div 4) % 2, (v \div 2) % 2, v % 2 >>

RECURSIVE UpdateBits(_, _, _)
UpdateBits(k, upd, v) ==
    IF k >= 38 THEN <<>>
    ELSE (IF k \in upd THEN <<1>> \o Bits7(v) ELSE <<0>>) \o UpdateBits(k + 1, upd, v)

ProbUpdateSets == { {}, {0}, {18}, {19}, {28}, {37}, {1, 20}, 0..37 }

ProbUpdateValues == { 0, 1, 64, 127 }

ProbInputs == { UpdateBits(0, upd, v) : upd \in ProbUpdateSets, v \in ProbUpdateValues }

InitProb ==
    /\ mbw = 1 /\ mbh = 1
    /\ InitDecoder

ParseMVProb(bits) ==
    /\ nProbCalls < MaxProbCalls
    /\ \E r \in {parseMVProb(mvProb, bits)} :
          /\ r.n = Len(bits)
          /\ mvProb' = r.tab
          /\ probRead' = [done |-> TRUE, bits |-> bits, before |-> mvProb,
                          visits |-> r.visits, n |-> r.n]
    /\ nProbCalls' = nProbCalls + 1
    /\ UNCHANGED <<mbw, mbh, signBias, mbx, mby, nMB, leftRefFrame, leftMV,
                   aboveRefFrame, aboveMV, upRefFrame, upMV,
                   refFrame, isInterMB, mvMode, mbMV, subMV, fb, cl, refImg, ybr, pr, mvRead, splitRead>>

NextProb == \E bits \in ProbInputs : ParseMVProb(bits)

SpecProb == InitProb /\ [][NextProb]_vars

(***************************************************************************)
(* Motion-compensated prediction.                                          *)
(***************************************************************************)
subpelFilter ==
    << <<0, 0, 128, 0, 0, 0>>,
       <<0, -6, 123, 12, -1, 0>>,
       <<2, -11, 108, 36, -8, 1>>,
       <<0, -9, 93, 50, -6, 0>>,
       <<3, -16, 77, 77, -16, 3>>,
       <<0, -6, 50, 93, -9, 0>>,
       <<1, -8, 36, 108, -11, 2>>,
       <<0, -1, 12, 123, -6, 0>> >>      \* indexed [phase + 1][tap + 1]

bilinearFilter ==
    << <<128, 0>>, <<112, 16>>, <<96, 32>>, <<80, 48>>,
       <<64, 64>>, <<48, 80>>, <<32, 96>>, <<16, 112>> >>

clip255(v) == IF v < 0 THEN 0 ELSE IF v > 255 THEN 255 ELSE v

\* The bytes of the reference planes: ref.Y[i], ref.Cb[i], ref.Cr[i].  The
\* contents are an input; img.pat selects one of a few pictures in which every
\* byte value occurs.
\* With img.grad > 0 the luma is a horizontal gradient: pat in column 0 and
\* grad more in each next column.
\* With img.flat each plane is constant: pat in ref.Y, FlatCb(img) in ref.Cb
\* and FlatCr(img) in ref.Cr.
FlatCb(img) == (img.pat + 85) % 256
FlatCr(img) == (img.pat + 170) % 256

PlaneY(img, i) ==
    IF img.flat THEN img.pat
    ELSE IF img.grad = 0 THEN (i * 7 + img.pat) % 256
    ELSE img.pat + img.grad * (i % img.yStride)

PlaneC(img, plane, i) ==
    IF img.flat THEN (IF plane = "Cb" THEN FlatCb(img) ELSE FlatCr(img))
    ELSE IF plane = "Cb" THEN (i * 4 + img.pat) % 256
    ELSE (i * 4 + 131 - img.pat) % 256

\* The luma edge clamp (lines 89-93, 99-103, 111-115) and the read
\* ref.Y[srcY*ref.YStride+srcX].
ClampCoord(v, max) == IF v < 0 THEN 0 ELSE IF v >= max THEN max - 1 ELSE v

\* The index srcY*ref.YStride+srcX after the clamps.
LumaIndex(img, x, y) ==
    ClampCoord(y, img.maxY) * img.yStride + ClampCoord(x, img.maxX)

RefY(img, x, y) == PlaneY(img, LumaIndex(img, x, y))

\* Line 104: the intermediate value at an integer horizontal position.
HorizontalCopyShift8(p) == Int16(p * 256)
HorizontalCopy(p) == Int16(p * 128)

\* Lines 107-118: the 16-bit sum of the six taps t, t+1, ... around column x.
RECURSIVE HorizontalSum(_, _, _, _, _, _)
HorizontalSum(img, filterX, x, y, t, sum) ==
    IF t > 5 THEN sum
    ELSE HorizontalSum(img, filterX, x, y, t + 1,
             Int16(sum + Int16(subpelFilter[filterX + 1][t + 1]
                               * RefY(img, x + t - 2, y))))

\* temp[..][..] for source column x and source row y (before clamping).
LumaTemp(img, filterX, x, y) ==
    IF filterX = 0 THEN HorizontalCopy(RefY(img, x, y))
    ELSE HorizontalSum(img, filterX, x, y, 0, 0)

\* Lines 132-136: the sum of the six vertical taps around source row y.
RECURSIVE VerticalSum(_, _, _, _, _, _, _)
VerticalSum(img, filterX, filterY, x, y, t, sum) ==
    IF t > 5 THEN sum
    ELSE VerticalSum(img, filterX, filterY, x, y, t + 1,
             sum + subpelFilter[filterY + 1][t + 1]
                   * LumaTemp(img, filterX, x, y + t - 2))

\* Lines 126-141 (and 464-475): the output byte for source position (x, y).
LumaPixel(img, filterX, filterY, x, y) ==
    clip255(IF filterY = 0
            THEN Int16(LumaTemp(img, filterX, x, y) + 64) \div 128
            ELSE (VerticalSum(img, filterX, filterY, x, y, 0, 0) + 8192) \div 16384)

\* interPredictLuma: the workspace w with the 16x16 luma block written.  The
\* shift mv >> 2 is the floor of the division and mv & 3 is never negative.
interPredictLumaEighth(w, img, x, y, mv) ==
    [r \in 0..25 |-> [c \in 0..31 |->
        IF r >= 1 /\ r <= 16 /\ c >= 8 /\ c <= 23
        THEN LumaPixel(img, mv.x % 4, mv.y % 4,
                       x * 16 + (mv.x \div 4) + (c - 8),
                       y * 16 + (mv.y \div 4) + (r - 1))
        ELSE w[r][c]]]
interPredictLuma(w, img, x, y, mv) ==
    [r \in 0..25 |-> [c \in 0..31 |->
        IF r >= 1 /\ r <= 16 /\ c >= 8 /\ c <= 23
        THEN LumaPixel(img, (mv.x % 4) * 2, (mv.y % 4) * 2,
                       x * 16 + (mv.x \div 4) + (c - 8),
                       y * 16 + (mv.y \div 4) + (r - 1))
        ELSE w[r][c]]]

\* interPredict4x4Luma: a direct copy when both phases are 0, the two filter
\* passes otherwise.
Luma4Pixel(img, filterX, filterY, x, y) ==
    IF filterX = 0 /\ filterY = 0 THEN RefY(img, x, y)
    ELSE LumaPixel(img, filterX, filterY, x, y)

interPredict4x4Luma(w, img, baseX, baseY, mv, blockRow, blockCol) ==
    [r \in 0..25 |-> [c \in 0..31 |->
        IF /\ r >= 1 + blockRow * 4 /\ r <= 4 + blockRow * 4
           /\ c >= 8 + blockCol * 4 /\ c <= 11 + blockCol * 4
        THEN Luma4Pixel(img, (mv.x % 4) * 2, (mv.y % 4) * 2,
                        baseX + (mv.x \div 4) + (c - (8 + blockCol * 4)),
                        baseY + (mv.y \div 4) + (r - (1 + blockRow * 4)))
        ELSE w[r][c]]]

\* Lines 196-219: the chroma clamp, against the stride and the plane height.
ChromaClamp(v, n) ==
    IF (IF v < 0 THEN 0 ELSE v) >= n THEN n - 1 ELSE (IF v < 0 THEN 0 ELSE v)

\* Lines 190-223 and 514-537: the index y*stride+x after the clamps against
\* stride and planeHeight = len(plane) / stride.
ChromaIndex(img, x, y) ==
    ChromaClamp(y, img.cRows) * img.cStride + ChromaClamp(x, img.cStride)

RefC(img, plane, x, y) == PlaneC(img, plane, ChromaIndex(img, x, y))

\* Lines 229-230: one horizontal interpolation.
BilinearH(p0, p1, fracX) ==
    (p0 * bilinearFilter[fracX + 1][1] + p1 * bilinearFilter[fracX + 1][2] + 64) \div 128

\* Line 231.
BilinearV(h0, h1, fracY) ==
    (h0 * bilinearFilter[fracY + 1][1] + h1 * bilinearFilter[fracY + 1][2] + 64) \div 128

\* Lines 189-234: the output byte for source position (x0, y0).
ChromaPixel(img, plane, fracX, fracY, x0, y0) ==
    clip255(BilinearV(BilinearH(RefC(img, plane, x0, y0),
                                RefC(img, plane, x0 + 1, y0), fracX),
                      BilinearH(RefC(img, plane, x0, y0 + 1),
                                RefC(img, plane, x0 + 1, y0 + 1), fracX),
                      fracY))

interPredictChromaPlane(w, img, plane, baseX, baseY, fracX, fracY, ybrXOffset, ybrYOffset) ==
    [r \in 0..25 |-> [c \in 0..31 |->
        IF /\ r >= ybrYOffset /\ r <= ybrYOffset + 7
           /\ c >= ybrXOffset /\ c <= ybrXOffset + 7
        THEN ChromaPixel(img, plane, fracX, fracY,
                         baseX + (c - ybrXOffset), baseY + (r - ybrYOffset))
        ELSE w[r][c]]]

\* interPredictChroma: Cb at row 18, column 8; Cr at row 18, column 24.
interPredictChroma(w, img, x, y, mv) ==
    interPredictChromaPlane(
        interPredictChromaPlane(w, img, "Cb", x * 8 + (mv.x \div 8),
                                y * 8 + (mv.y \div 8), mv.x % 8, mv.y % 8, 8, 18),
        img, "Cr", x * 8 + (mv.x \div 8), y * 8 + (mv.y \div 8),
        mv.x % 8, mv.y % 8, 24, 18)

\* interPredict4x4Chroma: both planes of one 4x4 chroma block.
interPredict4x4Chroma(w, img, baseX, baseY, mv, blockRow, blockCol) ==
    [r \in 0..25 |-> [c \in 0..31 |->
        IF /\ r >= 18 + blockRow * 4 /\ r <= 21 + blockRow * 4
           /\ c >= 8 + blockCol * 4 /\ c <= 11 + blockCol * 4
        THEN ChromaPixel(img, "Cb", mv.x % 8, mv.y % 8,
                         baseX + (mv.x \div 8) + (c - (8 + blockCol * 4)),
                         baseY + (mv.y \div 8) + (r - (18 + blockRow * 4)))
        ELSE IF /\ r >= 18 + blockRow * 4 /\ r <= 21 + blockRow * 4
                /\ c >= 24 + blockCol * 4 /\ c <= 27 + blockCol * 4
        THEN ChromaPixel(img, "Cr", mv.x % 8, mv.y % 8,
                         baseX + (mv.x \div 8) + (c - (24 + blockCol * 4)),
                         baseY + (mv.y \div 8) + (r - (18 + blockRow * 4)))
        ELSE w[r][c]]]

\* Go's integer division truncates toward zero.
TruncDiv(a, b) == IF a >= 0 THEN a \div b ELSE -((-a) \div b)

\* Lines 248-260: the clamp of the copy paths against an exclusive upper edge.
CopyClampNoLower(v, max) == IF v >= max THEN max - 1 ELSE v
CopyClamp(v, max) == IF v < 0 THEN 0 ELSE IF v >= max THEN max - 1 ELSE v

\* Lines 247-263: the luma byte copied to cell (row, col) of the block.
CopyLumaIndex(img, x, y, offsetX, offsetY, row, col) ==
    CopyClamp(y * 16 + row + offsetY, img.maxY) * img.yStride
    + CopyClamp(x * 16 + col + offsetX, img.maxX)

CopyLumaByte(img, x, y, offsetX, offsetY, row, col) ==
    PlaneY(img, CopyLumaIndex(img, x, y, offsetX, offsetY, row, col))

\* Lines 267-284: the chroma byte copied to cell (row, col) of a chroma block.
\* Lines 269-284: srcY*ref.CStride+srcX, clamped against ref.Rect.Max / 2.
CopyChromaIndex(img, x, y, offsetX, offsetY, row, col) ==
    CopyClamp(y * 8 + row + TruncDiv(offsetY, 2), img.maxY \div 2) * img.cStride
    + CopyClamp(x * 8 + col + TruncDiv(offsetX, 2), img.maxX \div 2)

CopyChromaByte(img, plane, x, y, offsetX, offsetY, row, col) ==
    PlaneC(img, plane, CopyChromaIndex(img, x, y, offsetX, offsetY, row, col))

copyBlockFromRefChromaRow17(w, img, x, y, offsetX, offsetY) ==
    [r \in 0..25 |-> [c \in 0..31 |->
        IF r >= 1 /\ r <= 16 /\ c >= 8 /\ c <= 23
        THEN CopyLumaByte(img, x, y, offsetX, offsetY, r - 1, c - 8)
        ELSE IF r >= 17 /\ r <= 24 /\ c >= 8 /\ c <= 15
        THEN CopyChromaByte(img, "Cb", x, y, offsetX, offsetY, r - 17, c - 8)
        ELSE IF r >= 17 /\ r <= 24 /\ c >= 24 /\ c <= 31
        THEN CopyChromaByte(img, "Cr", x, y, offsetX, offsetY, r - 17, c - 24)
        ELSE w[r][c]]]
copyBlockFromRefWithOffset(w, img, x, y, offsetX, offsetY) ==
    [r \in 0..25 |-> [c \in 0..31 |->
        IF r >= 1 /\ r <= 16 /\ c >= 8 /\ c <= 23
        THEN CopyLumaByte(img, x, y, offsetX, offsetY, r - 1, c - 8)
        ELSE IF r >= 18 /\ r <= 25 /\ c >= 8 /\ c <= 15
        THEN CopyChromaByte(img, "Cb", x, y, offsetX, offsetY, r - 18, c - 8)
        ELSE IF r >= 18 /\ r <= 25 /\ c >= 24 /\ c <= 31
        THEN CopyChromaByte(img, "Cr", x, y, offsetX, offsetY, r - 18, c - 24)
        ELSE w[r][c]]]

copyBlockFromRef(w, img, x, y) == copyBlockFromRefWithOffset(w, img, x, y, 0, 0)

\* Lines 292-307: no reference frame, the three regions become mid-grey.
FillGrayLumaOnly(w) ==
    [r \in 0..25 |-> [c \in 0..31 |->
        IF r >= 1 /\ r <= 16 /\ c >= 8 /\ c <= 23 THEN 128 ELSE w[r][c]]]
FillGray(w) ==
    [r \in 0..25 |-> [c \in 0..31 |->
        IF \/ (r >= 1 /\ r <= 16 /\ c >= 8 /\ c <= 23)
           \/ (r >= 18 /\ r <= 25 /\ c >= 8 /\ c <= 15)
           \/ (r >= 18 /\ r <= 25 /\ c >= 24 /\ c <= 31)
        THEN 128 ELSE w[r][c]]]

\* Lines 335-345: the luma blocks blockIdx, blockIdx + 1, ..., 15 in turn.
RECURSIVE SplitLumaLoop(_, _, _, _, _, _)
SplitLumaLoop(w, img, x, y, sub, blockIdx) ==
    IF blockIdx > 15 THEN w
    ELSE SplitLumaLoop(
             interPredict4x4Luma(w, img, x * 16 + (blockIdx % 4) * 4,
                                 y * 16 + (blockIdx \div 4) * 4, sub[blockIdx],
                                 blockIdx \div 4, blockIdx % 4),
             img, x, y, sub, blockIdx + 1)

\* Lines 352-364: the MV of chroma quadrant (chromaRow, chromaCol), the rounded
\* mean of its four luma sub-block MVs.
QuadrantBlocks(chromaRow, chromaCol) ==
    { (chromaRow * 2 + dy) * 4 + chromaCol * 2 + dx : dy \in 0..1, dx \in 0..1 }

RECURSIVE SumOver(_, _, _)
SumOver(sub, blocks, comp) ==
    IF blocks = {} THEN 0
    ELSE LET b == CHOOSE b \in blocks : TRUE
         IN  (IF comp = "x" THEN sub[b].x ELSE sub[b].y)
             + SumOver(sub, blocks \ {b}, comp)

ChromaAvgMVTrunc(sub, chromaRow, chromaCol) ==
    MV(Int16(TruncDiv(SumOver(sub, QuadrantBlocks(chromaRow, chromaCol), "x") + 2, 4)),
       Int16(TruncDiv(SumOver(sub, QuadrantBlocks(chromaRow, chromaCol), "y") + 2, 4)))
ChromaAvgMV(sub, chromaRow, chromaCol) ==
    MV(Int16((SumOver(sub, QuadrantBlocks(chromaRow, chromaCol), "x") + 2) \div 4),
       Int16((SumOver(sub, QuadrantBlocks(chromaRow, chromaCol), "y") + 2) \div 4))

\* Lines 349-372: the chroma quadrants q, q + 1, ..., 3 in turn.
RECURSIVE SplitChromaLoop(_, _, _, _, _, _)
SplitChromaLoop(w, img, x, y, sub, q) ==
    IF q > 3 THEN w
    ELSE SplitChromaLoop(
             interPredict4x4Chroma(w, img, x * 8 + (q % 2) * 4, y * 8 + (q \div 2) * 4,
                                   ChromaAvgMV(sub, q \div 2, q % 2), q \div 2, q % 2),
             img, x, y, sub, q + 1)

interPredictSplit(w, img, x, y, sub) ==
    SplitChromaLoop(SplitLumaLoop(w, img, x, y, sub, 0), img, x, y, sub, 0)

\* performInterPrediction; img.present is false when getRefFrame returns nil.
performInterPrediction(w, img, x, y, mode, mv, sub) ==
    IF ~img.present THEN FillGray(w)
    ELSE IF mode = mvModeSplit THEN interPredictSplit(w, img, x, y, sub)
    ELSE IF mv.x = 0 /\ mv.y = 0 THEN copyBlockFromRef(w, img, x, y)
    ELSE IF mv.x % 4 = 0 /\ mv.y % 4 = 0
    THEN copyBlockFromRefWithOffset(w, img, x, y, mv.x \div 4, mv.y \div 4)
    ELSE interPredictChroma(interPredictLuma(w, img, x, y, mv), img, x, y, mv)

\* len(ref.Y) and len(ref.Cb) = len(ref.Cr): planes of stride x rows bytes.
LumaLen(img) == img.yStride * img.maxY
ChromaLen(img) == img.cStride * img.cRows

\* Lines 267-284: the chroma cells (numbered row * 8 + col, the order of the
\* loops) whose read ref.Cb[srcY*ref.CStride+srcX] is outside the plane.  Go
\* panics at the first such read.
CopyChromaFaults(img, x, y, offsetX, offsetY) ==
    { k \in 0..63 :
        \/ CopyChromaIndex(img, x, y, offsetX, offsetY, k \div 8, k % 8) < 0
        \/ CopyChromaIndex(img, x, y, offsetX, offsetY, k \div 8, k % 8) >= ChromaLen(img) }

FirstFault(faults) == CHOOSE k \in faults : \A j \in faults : k <= j

\* copyBlockFromRefWithOffset up to the panic at chroma cell first: the luma
\* block and the chroma cells before it are written.
copyBlockUntilFault(w, img, x, y, offsetX, offsetY, first) ==
    [r \in 0..25 |-> [c \in 0..31 |->
        IF r >= 1 /\ r <= 16 /\ c >= 8 /\ c <= 23
        THEN CopyLumaByte(img, x, y, offsetX, offsetY, r - 1, c - 8)
        ELSE IF r >= 18 /\ r <= 25 /\ c >= 8 /\ c <= 15 /\ (r - 18) * 8 + (c - 8) < first
        THEN CopyChromaByte(img, "Cb", x, y, offsetX, offsetY, r - 18, c - 8)
        ELSE IF r >= 18 /\ r <= 25 /\ c >= 24 /\ c <= 31 /\ (r - 18) * 8 + (c - 24) < first
        THEN CopyChromaByte(img, "Cr", x, y, offsetX, offsetY, r - 18, c - 24)
        ELSE w[r][c]]]

\* Lines 317-323: the calls of performInterPrediction that take a copy path.
TakesCopyPath(img, mode, mv) ==
    img.present /\ mode # mvModeSplit /\ mv.x % 4 = 0 /\ mv.y % 4 = 0

PredictionFaults(img, x, y, mode, mv) ==
    IF TakesCopyPath(img, mode, mv)
    THEN CopyChromaFaults(img, x, y, mv.x \div 4, mv.y \div 4)
    ELSE {}

\* Reference frames: one macroblock with tight strides, and 20 x 18 pixels
\* with padded strides.
RefImages ==
    { [present |-> TRUE, maxX |-> 16, maxY |-> 16, yStride |-> 16,
       cStride |-> 8, cRows |-> 8, pat |-> p, grad |-> 0, flat |-> FALSE] : p \in 0..3 }
    \cup
    { [present |-> TRUE, maxX |-> 20, maxY |-> 18, yStride |-> 32,
       cStride |-> 16, cRows |-> 9, pat |-> p, grad |-> 0, flat |-> FALSE] : p \in 0..3 }

\* The 20 x 18 picture with a luma gradient of 3 per column, from 16.
GradientImage ==
    [present |-> TRUE, maxX |-> 20, maxY |-> 18, yStride |-> 32,
     cStride |-> 16, cRows |-> 9, pat |-> 16, grad |-> 3, flat |-> FALSE]

PredMVs == { MV(cx, cy) : cx \in { -68, -8, -3, 0, 2, 4, 72 }, cy \in { -4, 0, 1, 8 } }

InitPred ==
    /\ refImg \in RefImages
    /\ mbw = (refImg.maxX + 15) \div 16 /\ mbh = (refImg.maxY + 15) \div 16
    /\ signBias = [i \in 0..3 |-> FALSE]
    /\ mbx \in 0..(mbw - 1) /\ mby \in 0..(mbh - 1) /\ nMB = 0
    /\ leftRefFrame = refFrameIntra /\ leftMV = mvZero
    /\ aboveRefFrame = [c \in 0..(mbw - 1) |-> refFrameIntra]
    /\ aboveMV = [c \in 0..(mbw - 1) |-> mvZero]
    /\ upRefFrame = [c \in 0..(mbw - 1) |-> refFrameIntra]
    /\ upMV = [c \in 0..(mbw - 1) |-> mvZero]
    /\ refFrame = refFrameLast /\ isInterMB = TRUE
    /\ mvMode = mvModeNearest /\ mbMV = mvZero
    /\ subMV = [b \in 0..15 |-> mvZero]
    /\ fb = NoParse
    /\ mvProb = defaultMVProb /\ nProbCalls = 0
    /\ cl = NoClamp
    /\ ybr = ZeroWorkspace
    /\ pr = NoPrediction
    /\ mvRead = NoRead
    /\ splitRead = NoSplit
    /\ probRead = NoProbRead

Predicted(kind, mv, blockRow, blockCol) ==
    [done |-> TRUE, kind |-> kind, mv |-> mv, x |-> mbx, y |-> mby,
     blockRow |-> blockRow, blockCol |-> blockCol, before |-> ybr]

InterPredictLuma(mv) ==
    /\ ~pr.done
    /\ ybr' = interPredictLuma(ybr, refImg, mbx, mby, mv)
    /\ pr' = Predicted("luma16", mv, 0, 0)
    /\ UNCHANGED <<mbw, mbh, signBias, mbx, mby, nMB, leftRefFrame, leftMV,
                   aboveRefFrame, aboveMV, upRefFrame, upMV, refFrame, isInterMB,
                   mvMode, mbMV, subMV, fb, mvProb, nProbCalls, cl, refImg, mvRead, splitRead, probRead>>

\* Lines 337-344 of interPredictSplit give the block's base position.
InterPredict4x4Luma(mv, blockIdx) ==
    /\ ~pr.done
    /\ ybr' = interPredict4x4Luma(ybr, refImg, mbx * 16 + (blockIdx % 4) * 4,
                                  mby * 16 + (blockIdx \div 4) * 4, mv,
                                  blockIdx \div 4, blockIdx % 4)
    /\ pr' = Predicted("luma4", mv, blockIdx \div 4, blockIdx % 4)
    /\ UNCHANGED <<mbw, mbh, signBias, mbx, mby, nMB, leftRefFrame, leftMV,
                   aboveRefFrame, aboveMV, upRefFrame, upMV, refFrame, isInterMB,
                   mvMode, mbMV, subMV, fb, mvProb, nProbCalls, cl, refImg, mvRead, splitRead, probRead>>

InterPredictChroma(mv) ==
    /\ ~pr.done
    /\ ybr' = interPredictChroma(ybr, refImg, mbx, mby, mv)
    /\ pr' = Predicted("chroma8", mv, 0, 0)
    /\ UNCHANGED <<mbw, mbh, signBias, mbx, mby, nMB, leftRefFrame, leftMV,
                   aboveRefFrame, aboveMV, upRefFrame, upMV, refFrame, isInterMB,
                   mvMode, mbMV, subMV, fb, mvProb, nProbCalls, cl, refImg, mvRead, splitRead, probRead>>

\* Lines 367-370 of interPredictSplit give the block's base position.
InterPredict4x4Chroma(mv, chromaRow, chromaCol) ==
    /\ ~pr.done
    /\ ybr' = interPredict4x4Chroma(ybr, refImg, mbx * 8 + chromaCol * 4,
                                    mby * 8 + chromaRow * 4, mv, chromaRow, chromaCol)
    /\ pr' = Predicted("chroma4", mv, chromaRow, chromaCol)
    /\ UNCHANGED <<mbw, mbh, signBias, mbx, mby, nMB, leftRefFrame, leftMV,
                   aboveRefFrame, aboveMV, upRefFrame, upMV, refFrame, isInterMB,
                   mvMode, mbMV, subMV, fb, mvProb, nProbCalls, cl, refImg, mvRead, splitRead, probRead>>

NextPred ==
    \/ \E mv \in PredMVs : InterPredictLuma(mv)
    \/ \E mv \in PredMVs : \E blockIdx \in { 0, 6, 15 } : InterPredict4x4Luma(mv, blockIdx)
    \/ \E mv \in PredMVs : InterPredictChroma(mv)
    \/ \E mv \in PredMVs : \E chromaRow \in 0..1 :
          InterPredict4x4Chroma(mv, chromaRow, 1 - chromaRow)

SpecPred == InitPred /\ [][NextPred]_vars

\* The dispatcher on its own: the macroblock's mode and MVs, the reference
\* frame (or none) and the workspace left by earlier macroblocks are drawn.
SubUniform(m) == [b \in 0..15 |-> m]

SubByQuadrant == [b \in 0..15 |-> MV(4 * ((b \div 8) * 2 + (b % 4) \div 2) - 6, 3 - (b \div 8) * 8)]

SubMixed == [b \in 0..15 |-> MV(b - 8, 5 - 2 * b)]

ParsedMB(mode, mv, sub) == [mode |-> mode, mv |-> mv, sub |-> sub]

DispatchInputs ==
    { ParsedMB(mvModeZero, mvZero, SubUniform(mvZero)),
      ParsedMB(mvModeNearest, MV(4, 0), SubUniform(mvZero)),
      ParsedMB(mvModeNearest, MV(-8, -4), SubUniform(mvZero)),
      ParsedMB(mvModeNear, MV(72, 8), SubUniform(mvZero)),
      ParsedMB(mvModeNew, MV(1, 0), SubUniform(mvZero)),
      ParsedMB(mvModeNew, MV(-3, 1), SubUniform(mvZero)),
      ParsedMB(mvModeNew, MV(2, -68), SubUniform(mvZero)),
      ParsedMB(mvModeSplit, MV(-3, 1), SubUniform(MV(-3, 1))),
      ParsedMB(mvModeSplit, MV(-8, -4), SubUniform(MV(-8, -4))),
      ParsedMB(mvModeSplit, MV(5, 6), SubUniform(MV(5, 6))),
      ParsedMB(mvModeSplit, SubByQuadrant[15], SubByQuadrant),
      ParsedMB(mvModeSplit, SubMixed[15], SubMixed) }

DispatchImages ==
    { NoRef, GradientImage } \cup { img \in RefImages : img.pat = 1 }

\* A workspace that holds the bytes of earlier macroblocks.
UsedWorkspace == [r \in 0..25 |-> [c \in 0..31 |-> (r * 32 + c) % 251]]

InitDispatch ==
    /\ refImg \in DispatchImages
    /\ mbw = IF refImg.present THEN (refImg.maxX + 15) \div 16 ELSE 2
    /\ mbh = IF refImg.present THEN (refImg.maxY + 15) \div 16 ELSE 2
    /\ signBias = [i \in 0..3 |-> FALSE]
    /\ mbx \in 0..(mbw - 1) /\ mby \in 0..(mbh - 1) /\ nMB = 0
    /\ leftRefFrame = refFrameIntra /\ leftMV = mvZero
    /\ aboveRefFrame = [c \in 0..(mbw - 1) |-> refFrameIntra]
    /\ aboveMV = [c \in 0..(mbw - 1) |-> mvZero]
    /\ upRefFrame = [c \in 0..(mbw - 1) |-> refFrameIntra]
    /\ upMV = [c \in 0..(mbw - 1) |-> mvZero]
    /\ refFrame = refFrameLast /\ isInterMB = TRUE
    /\ \E parsed \in DispatchInputs :
          mvMode = parsed.mode /\ mbMV = parsed.mv /\ subMV = parsed.sub
    /\ fb = NoParse
    /\ mvProb = defaultMVProb /\ nProbCalls = 0
    /\ cl = NoClamp
    /\ ybr \in { ZeroWorkspace, UsedWorkspace }
    /\ pr = NoPrediction
    /\ mvRead = NoRead
    /\ splitRead = NoSplit
    /\ probRead = NoProbRead

PerformInterPrediction ==
    /\ ~pr.done
    /\ \E faults \in { PredictionFaults(refImg, mbx, mby, mvMode, mbMV) } :
          IF faults = {}
          THEN /\ ybr' = performInterPrediction(ybr, refImg, mbx, mby, mvMode, mbMV, subMV)
               /\ pr' = Predicted("dispatch", mbMV, 0, 0)
          ELSE /\ ybr' = copyBlockUntilFault(ybr, refImg, mbx, mby, mbMV.x \div 4,
                                             mbMV.y \div 4, FirstFault(faults))
               /\ pr' = Predicted("panic", mbMV, 0, 0)
    /\ UNCHANGED <<mbw, mbh, signBias, mbx, mby, nMB, leftRefFrame, leftMV,
                   aboveRefFrame, aboveMV, upRefFrame, upMV, refFrame, isInterMB,
                   mvMode, mbMV, subMV, fb, mvProb, nProbCalls, cl, refImg, mvRead, splitRead, probRead>>

SpecDispatch == InitDispatch /\ [][PerformInterPrediction]_vars

\* The dispatcher on small reference frames: 1, 3 or 17 pixels wide and 1, 2
\* or 18 high, Rect.Min = (0,0), tight or padded strides, and chroma planes of
\* ceil(height / 2) rows.
IndexWidths == { 1, 3, 17 }
IndexHeights == { 1, 2, 18 }

IndexImages ==
    { [present |-> TRUE, maxX |-> wd, maxY |-> ht, yStride |-> wd + pad,
       cStride |-> (wd + 1) \div 2 + pad, cRows |-> (ht + 1) \div 2,
       pat |-> 1, grad |-> 0, flat |-> FALSE] :
      wd \in IndexWidths, ht \in IndexHeights, pad \in { 0, 2 } }

InitIndex ==
    /\ refImg \in IndexImages
    /\ mbw = (refImg.maxX + 15) \div 16 /\ mbh = (refImg.maxY + 15) \div 16
    /\ signBias = [i \in 0..3 |-> FALSE]
    /\ mbx \in 0..(mbw - 1) /\ mby \in 0..(mbh - 1) /\ nMB = 0
    /\ leftRefFrame = refFrameIntra /\ leftMV = mvZero
    /\ aboveRefFrame = [c \in 0..(mbw - 1) |-> refFrameIntra]
    /\ aboveMV = [c \in 0..(mbw - 1) |-> mvZero]
    /\ upRefFrame = [c \in 0..(mbw - 1) |-> refFrameIntra]
    /\ upMV = [c \in 0..(mbw - 1) |-> mvZero]
    /\ refFrame = refFrameLast /\ isInterMB = TRUE
    /\ \E parsed \in DispatchInputs :
          mvMode = parsed.mode /\ mbMV = parsed.mv /\ subMV = parsed.sub
    /\ fb = NoParse
    /\ mvProb = defaultMVProb /\ nProbCalls = 0
    /\ cl = NoClamp
    /\ ybr = ZeroWorkspace
    /\ pr = NoPrediction
    /\ mvRead = NoRead
    /\ splitRead = NoSplit
    /\ probRead = NoProbRead

SpecIndex == InitIndex /\ [][PerformInterPrediction]_vars

\* The dispatcher on reference frames whose three planes are constant: one
\* macroblock, 20 x 18 pixels with padded strides, and 1 x 18 pixels.
FlatLevels == { 0, 77, 255 }

FlatImages ==
    { [present |-> TRUE, maxX |-> 16, maxY |-> 16, yStride |-> 16,
       cStride |-> 8, cRows |-> 8, pat |-> lv, grad |-> 0, flat |-> TRUE] :
      lv \in FlatLevels }
    \cup
    { [present |-> TRUE, maxX |-> 20, maxY |-> 18, yStride |-> 32,
       cStride |-> 16, cRows |-> 9, pat |-> lv, grad |-> 0, flat |-> TRUE] :
      lv \in FlatLevels }
    \cup
    { [present |-> TRUE, maxX |-> 1, maxY |-> 18, yStride |-> 1,
       cStride |-> 1, cRows |-> 9, pat |-> lv, grad |-> 0, flat |-> TRUE] :
      lv \in FlatLevels }

FlatInputs ==
    DispatchInputs \cup { ParsedMB(mvModeNew, mv, SubUniform(mvZero)) : mv \in PredMVs }

InitFlat ==
    /\ refImg \in FlatImages
    /\ mbw = (refImg.maxX + 15) \div 16 /\ mbh = (refImg.maxY + 15) \div 16
    /\ signBias = [i \in 0..3 |-> FALSE]
    /\ mbx \in 0..(mbw - 1) /\ mby \in 0..(mbh - 1) /\ nMB = 0
    /\ leftRefFrame = refFrameIntra /\ leftMV = mvZero
    /\ aboveRefFrame = [c \in 0..(mbw - 1) |-> refFrameIntra]
    /\ aboveMV = [c \in 0..(mbw - 1) |-> mvZero]
    /\ upRefFrame = [c \in 0..(mbw - 1) |-> refFrameIntra]
    /\ upMV = [c \in 0..(mbw - 1) |-> mvZero]
    /\ refFrame = refFrameLast /\ isInterMB = TRUE
    /\ \E parsed \in FlatInputs :
          mvMode = parsed.mode /\ mbMV = parsed.mv /\ subMV = parsed.sub
    /\ fb = NoParse
    /\ mvProb = defaultMVProb /\ nProbCalls = 0
    /\ cl = NoClamp
    /\ ybr = UsedWorkspace
    /\ pr = NoPrediction
    /\ mvRead = NoRead
    /\ splitRead = NoSplit
    /\ probRead = NoProbRead

SpecFlat == InitFlat /\ [][PerformInterPrediction]_vars

(***************************************************************************)
(* Frames whose macroblocks are mostly SPLITMV, so that a macroblock's     *)
(* left or above neighbour carries sub-MVs that differ among themselves.   *)
(***************************************************************************)
PatternC == <<SubLeft, SubAbove>>

SplitInputs ==
    { IntraBits, InterLast(ModeNearestBits), InterLast(ModeNewBits(MVMinus4Y)),
      InterLast(ModeSplitBits(Split4x4(PatternA))),
      InterLast(ModeSplitBits(Split4x4(PatternC))),
      InterLast(ModeSplitBits(Split8x8(PatternB))),
      InterLast(ModeSplitBits(Split16x8(PatternC))),
      InterGolden(ModeSplitBits(Split8x16(PatternC))) }

SplitFrameSizes == { <<2, 1>>, <<1, 2>> }

InitSplit ==
    /\ \E fs \in SplitFrameSizes : mbw = fs[1] /\ mbh = fs[2]
    /\ InitDecoder

NextSplit == \E bits \in SplitInputs : DecodeMB(bits)

SpecSplit == InitSplit /\ [][NextSplit]_vars

(***************************************************************************)
(* parseSplitMV on its own: one call at a position of a 2 x 2 frame, with  *)
(* the neighbour context, the earlier contents of d.subMV and the nearest  *)
(* MV drawn from small sets.                                               *)
(***************************************************************************)
\* d.subMV as an earlier SPLITMV macroblock may have left it.
StaleSubMV == [b \in 0..15 |-> MV(4 * b + 4, -4)]

SplitContexts ==
    { [ref |-> refFrameIntra, mv |-> mvZero], [ref |-> refFrameLast, mv |-> mvZero],
      [ref |-> refFrameLast, mv |-> MV(12, -8)], [ref |-> refFrameGolden, mv |-> MV(-4, 4)] }

SplitMVInputs ==
    { Split4x4(PatternA), Split4x4(PatternC),
      Split8x8(PatternA), Split8x8(PatternB), Split8x8(PatternC),
      Split16x8(PatternA), Split16x8(PatternB), Split16x8(PatternC),
      Split8x16(PatternA), Split8x16(PatternB), Split8x16(PatternC) }

SplitNearest == { mvZero, MV(12, -8) }

InitSplitMV ==
    /\ mbw = 2 /\ mbh = 2
    /\ signBias = [i \in 0..3 |-> FALSE]
    /\ mbx \in 0..1 /\ mby \in 0..1 /\ nMB = mby * mbw + mbx
    /\ \E l \in SplitContexts :
          /\ mbx = 0 => l.ref = refFrameIntra
          /\ leftRefFrame = l.ref /\ leftMV = l.mv
    /\ \E a \in SplitContexts :
          /\ mby = 0 => a.ref = refFrameIntra
          /\ aboveRefFrame = [c \in 0..1 |-> IF c = mbx THEN a.ref ELSE refFrameIntra]
          /\ aboveMV = [c \in 0..1 |-> IF c = mbx THEN a.mv ELSE mvZero]
    /\ upRefFrame = [c \in 0..1 |-> refFrameIntra]
    /\ upMV = [c \in 0..1 |-> mvZero]
    /\ refFrame = refFrameLast /\ isInterMB = TRUE
    /\ mvMode = mvModeSplit /\ mbMV = mvZero
    /\ subMV \in { [b \in 0..15 |-> mvZero], StaleSubMV }
    /\ fb = NoParse
    /\ mvProb = defaultMVProb /\ nProbCalls = 0
    /\ cl = NoClamp
    /\ refImg = NoRef
    /\ ybr = ZeroWorkspace
    /\ pr = NoPrediction
    /\ mvRead = NoRead
    /\ splitRead = NoSplit
    /\ probRead = NoProbRead

\* One call parseSplitMV(mbx, mby, nearest) on the bits given.
SplitCalled(bits, nearest, r) ==
    [done |-> TRUE, bits |-> bits, x |-> mbx, y |-> mby, nearest |-> nearest,
     before |-> subMV, splitType |-> r.splitType, typeBits |-> r.typeBits,
     typeProbs |-> r.typeProbs, parts |-> r.parts, subMV |-> r.subMV, n |-> r.n]

ParseSplitMV(bits, nearest) ==
    /\ ~splitRead.done
    /\ \E r \in {parseSplitMV(bits, mbx, mby, nearest, leftRefFrame, leftMV,
                              aboveRefFrame[mbx], aboveMV[mbx], mbw, mbh)} :
          /\ r.n = Len(bits)
          /\ subMV' = r.subMV
          /\ mbMV' = r.mbMV
          /\ splitRead' = SplitCalled(bits, nearest, r)
    /\ UNCHANGED <<mbw, mbh, signBias, mbx, mby, nMB, leftRefFrame, leftMV,
                   aboveRefFrame, aboveMV, upRefFrame, upMV, refFrame, isInterMB,
                   mvMode, fb, mvProb, nProbCalls, cl, refImg, ybr, pr, mvRead, probRead>>

NextSplitMV ==
    \E bits \in SplitMVInputs : \E nearest \in SplitNearest : ParseSplitMV(bits, nearest)

SpecSplitMV == InitSplitMV /\ [][NextSplitMV]_vars

(***************************************************************************)
(* readMV on its own.                                                      *)
(***************************************************************************)
\* The bits of a short component of value v in -7..7: the long/short bit, the
\* three tree bits and, for a non-zero magnitude, the sign bit.
Abs(v) == IF v < 0 THEN -v ELSE v

ShortCode(v) ==
    << 0, (Abs(v) \div 4) % 2, (Abs(v) \div 2) % 2, Abs(v) % 2 >>
    \o (IF v = 0 THEN <<>> ELSE << IF v < 0 THEN 1 ELSE 0 >>)

\* Some long components: the long/short bit, nine magnitude bits and the sign
\* bit as readMVComponent consumes them.
LongCodes ==
    { << 1, h1, 0, h3, l1, 0, 0, l4, 0, l6, sg >> :
          h1 \in 0..1, h3 \in 0..1, l1 \in 0..1, l4 \in 0..1, l6 \in 0..1, sg \in 0..1 }

ComponentCodes == { ShortCode(v) : v \in -7..7 } \cup LongCodes

MVInputs == { a \o b : a \in ComponentCodes, b \in ComponentCodes }

InitMV ==
    /\ mbw = 1 /\ mbh = 1
    /\ InitDecoder

ReadMV(bits) ==
    /\ ~mvRead.done
    /\ \E r \in {readMV(bits)} :
          /\ r.n = Len(bits)
          /\ mvRead' = [done |-> TRUE, bits |-> bits, mv |-> r.mv, n |-> r.n,
                        comps |-> r.comps]
    /\ UNCHANGED <<mbw, mbh, signBias, mbx, mby, nMB, leftRefFrame, leftMV,
                   aboveRefFrame, aboveMV, upRefFrame, upMV, refFrame, isInterMB,
                   mvMode, mbMV, subMV, fb, mvProb, nProbCalls, cl, refImg, ybr, pr, splitRead, probRead>>

NextMV == \E bits \in MVInputs : ReadMV(bits)

SpecMV == InitMV /\ [][NextMV]_vars

(***************************************************************************)
(* The properties.                                                         *)
(***************************************************************************)
\* The clamp interval of section 4.5, in unbounded integers.
MinX(x) == (-x * 16 - 16) * 4 - 64
MaxX(x, w) == (w - x) * 16 * 4 + 64
MinY(y) == (-y * 16 - 16) * 4 - 64
MaxY(y, h) == (h - y) * 16 * 4 + 64

InClampRange(mv, x, y, w, h) ==
    /\ MinX(x) <= mv.x /\ mv.x <= MaxX(x, w)
    /\ MinY(y) <= mv.y /\ mv.y <= MaxY(y, h)

Clip(v, lo, hi) == IF v < lo THEN lo ELSE IF v > hi THEN hi ELSE v

\* C1: after parseMVMode returns for an inter macroblock at (mbx, mby), mbMV
\* lies in the clamp interval of its position, and after SPLIT so does each of
\* the 16 sub-block MVs.
C1_MVInClampRange ==
    (fb.done /\ fb.inter) =>
        /\ InClampRange(mbMV, fb.x, fb.y, mbw, mbh)
        /\ mvMode = mvModeSplit =>
              \A b \in 0..15 : InClampRange(subMV[b], fb.x, fb.y, mbw, mbh)

\* C2: the bounds clampMV compares against are the mathematical values for
\* every frame size up to 1024 macroblocks, so min <= max and the result is
\* the input clipped to the two intervals.
C2_ClampIsClip ==
    cl.done =>
        /\ ClampBounds(cl.x, cl.y, cl.w, cl.h) =
              [minX |-> MinX(cl.x), maxX |-> MaxX(cl.x, cl.w),
               minY |-> MinY(cl.y), maxY |-> MaxY(cl.y, cl.h)]
        /\ cl.out = MV(Clip(cl.in.x, MinX(cl.x), MaxX(cl.x, cl.w)),
                       Clip(cl.in.y, MinY(cl.y), MaxY(cl.y, cl.h)))

\* C3: findBestMV returns nearest = near = (0,0) when none of LEFT, ABOVE,
\* ABOVE-LEFT is inside the frame and inter-coded, whatever MVs the neighbour
\* slots hold.
C3_ZeroDefault ==
    (fb.done /\ fb.inter /\ ~fb.left.inc /\ ~fb.above.inc /\ ~fb.aboveLeft.inc) =>
        (fb.nearest = mvZero /\ fb.near = mvZero)

\* A macroblock without inter-coded neighbour was parsed while a neighbour
\* slot held a non-zero MV.
C3_Witness ==
    /\ fb.done /\ fb.inter
    /\ ~fb.left.inc /\ ~fb.above.inc /\ ~fb.aboveLeft.inc
    /\ fb.x > 0 /\ fb.left.mv # mvZero
    /\ fb.nearest = mvZero

\* The neighbours findBestMV takes as candidates, in the order LEFT, ABOVE,
\* ABOVE-LEFT, from the neighbour context the macroblock was parsed in.
IncludedNeighbours ==
    (IF fb.left.inc THEN <<Cand(fb.left.mv, fb.left.ref)>> ELSE <<>>)
    \o (IF fb.above.inc THEN <<Cand(fb.above.mv, fb.above.ref)>> ELSE <<>>)
    \o (IF fb.aboveLeft.inc THEN <<Cand(fb.aboveLeft.mv, fb.aboveLeft.ref)>> ELSE <<>>)

\* The candidate c as the specification corrects it for a macroblock that
\* refers to cur: negated componentwise iff the sign biases differ.
Corrected(c, cur) ==
    IF signBias[c.ref] # signBias[cur] THEN MV(-c.mv.x, -c.mv.y) ELSE c.mv

\* C5: each included candidate is negated componentwise if and only if the
\* sign bias of its reference frame differs from that of the current
\* macroblock's reference frame, and is used unchanged otherwise.
C5_SignBiasNegation ==
    (fb.done /\ fb.inter) =>
        /\ Len(fb.cands) = Len(IncludedNeighbours)
        /\ \A i \in 1..Len(fb.cands) :
              fb.cands[i] = Corrected(IncludedNeighbours[i], fb.cur)

\* The case of C6: LEFT is not inter-coded, ABOVE is inter-coded with MV (8,0)
\* and a reference frame whose sign bias differs from the current one's.
C6_Case ==
    /\ fb.done /\ fb.inter
    /\ ~fb.left.inc
    /\ fb.above.inc /\ fb.above.mv = MV(8, 0)
    /\ signBias[fb.above.ref] # signBias[fb.cur]

\* C6 as claimed: in that case findBestMV returns nearest = (-8,0) and
\* near = (0,0).
C6_Original ==
    C6_Case => (fb.nearest = MV(-8, 0) /\ fb.near = mvZero)

\* C6 as amended: the same, provided ABOVE-LEFT is not a candidate or its
\* sign-corrected MV is zero or equal to (-8,0).
C6_Amended ==
    (C6_Case /\ (fb.aboveLeft.inc =>
                    Corrected(Cand(fb.aboveLeft.mv, fb.aboveLeft.ref), fb.cur)
                        \in { mvZero, MV(-8, 0) })) =>
        (fb.nearest = MV(-8, 0) /\ fb.near = mvZero)

\* The amended case with ABOVE-LEFT an inter-coded candidate.
C6_Witness ==
    /\ C6_Case
    /\ fb.aboveLeft.inc
    /\ Corrected(Cand(fb.aboveLeft.mv, fb.aboveLeft.ref), fb.cur) = MV(-8, 0)
    /\ fb.nearest = MV(-8, 0)

\* The positions of the non-zero candidates, and of those after position i
\* that differ from candidate i.
NonZeroAt(cs) == { i \in 1..Len(cs) : cs[i] # mvZero }

LaterDifferent(cs, i) == { j \in NonZeroAt(cs) : j > i /\ cs[j] # cs[i] }

Least(S) == CHOOSE i \in S : \A j \in S : i <= j

\* C7: the candidates are scanned in the order LEFT, ABOVE, ABOVE-LEFT;
\* nearest is the first non-zero one, near the first later one that is
\* non-zero and differs from nearest, and an output without such a candidate
\* is the zero MV.
C7_Selection ==
    (fb.done /\ fb.inter) =>
        /\ fb.nb = IncludedNeighbours
        /\ fb.nearest = IF NonZeroAt(fb.cands) = {} THEN mvZero
                        ELSE fb.cands[Least(NonZeroAt(fb.cands))]
        /\ fb.near = IF NonZeroAt(fb.cands) = {} THEN mvZero
                     ELSE IF LaterDifferent(fb.cands, Least(NonZeroAt(fb.cands))) = {}
                          THEN mvZero
                          ELSE fb.cands[Least(LaterDifferent(fb.cands,
                                                  Least(NonZeroAt(fb.cands))))]

\* Three candidates, the second equal to the first, near taken from the third.
C7_Witness ==
    /\ fb.done /\ fb.inter
    /\ Len(fb.cands) = 3
    /\ fb.cands[1] # mvZero /\ fb.cands[2] = fb.cands[1]
    /\ fb.near = fb.cands[3] /\ fb.near # mvZero

\* C8: after a SPLITMV macroblock is parsed, mbMV equals subMV[15].
C8_SplitRepresentative ==
    (fb.done /\ fb.inter /\ mvMode = mvModeSplit) => mbMV = subMV[15]

\* A SPLITMV macroblock whose first and last sub-block MVs differ.
C8_Witness ==
    /\ fb.done /\ fb.inter /\ mvMode = mvModeSplit
    /\ subMV[0] # subMV[15]
    /\ mbMV # mvZero

C4_ProbDomain ==
    \A i \in 1..2 : \A j \in 1..19 : mvProb[i][j] >= 1 /\ mvProb[i][j] <= 255

\* A call has replaced an entry by a decoded 0, which became 1.
C4_Witness ==
    /\ nProbCalls > 0
    /\ mvProb[1][1] = 1
    /\ mvProb[2][19] = 254

\* The reference byte the luma interpolators address at phase 0 for the cell
\* `row`, `col` of a block whose top left corner is (baseX, baseY): the position
\* is moved by the whole pixels of the MV and clipped to the picture.
LumaRefByte(baseX, baseY, row, col) ==
    PlaneY(refImg,
           Clip(baseY + (pr.mv.y \div 4) + row, 0, refImg.maxY - 1) * refImg.yStride
           + Clip(baseX + (pr.mv.x \div 4) + col, 0, refImg.maxX - 1))

\* The same for a chroma plane, whose edges are the stride and the plane height.
ChromaRefByte(plane, baseX, baseY, row, col) ==
    PlaneC(refImg, plane,
           Clip(baseY + (pr.mv.y \div 8) + row, 0, refImg.cRows - 1) * refImg.cStride
           + Clip(baseX + (pr.mv.x \div 8) + col, 0, refImg.cStride - 1))

\* C10: with fractional parts (0,0) the luma interpolators (16x16 and 4x4)
\* write exactly the reference byte at the integer-offset position, and the
\* chroma bilinear interpolators (8x8 and 4x4) write exactly the reference
\* chroma byte.
C10_PhaseZeroIdentity ==
    /\ (pr.done /\ pr.kind = "luma16" /\ pr.mv.x % 4 = 0 /\ pr.mv.y % 4 = 0) =>
          \A row \in 0..15 : \A col \in 0..15 :
              ybr[1 + row][8 + col] = LumaRefByte(pr.x * 16, pr.y * 16, row, col)
    /\ (pr.done /\ pr.kind = "luma4" /\ pr.mv.x % 4 = 0 /\ pr.mv.y % 4 = 0) =>
          \A row \in 0..3 : \A col \in 0..3 :
              ybr[1 + pr.blockRow * 4 + row][8 + pr.blockCol * 4 + col] =
                  LumaRefByte(pr.x * 16 + pr.blockCol * 4,
                              pr.y * 16 + pr.blockRow * 4, row, col)
    /\ (pr.done /\ pr.kind = "chroma8" /\ pr.mv.x % 8 = 0 /\ pr.mv.y % 8 = 0) =>
          \A row \in 0..7 : \A col \in 0..7 :
              /\ ybr[18 + row][8 + col] =
                    ChromaRefByte("Cb", pr.x * 8, pr.y * 8, row, col)
              /\ ybr[18 + row][24 + col] =
                    ChromaRefByte("Cr", pr.x * 8, pr.y * 8, row, col)
    /\ (pr.done /\ pr.kind = "chroma4" /\ pr.mv.x % 8 = 0 /\ pr.mv.y % 8 = 0) =>
          \A row \in 0..3 : \A col \in 0..3 :
              /\ ybr[18 + pr.blockRow * 4 + row][8 + pr.blockCol * 4 + col] =
                    ChromaRefByte("Cb", pr.x * 8 + pr.blockCol * 4,
                                  pr.y * 8 + pr.blockRow * 4, row, col)
              /\ ybr[18 + pr.blockRow * 4 + row][24 + pr.blockCol * 4 + col] =
                    ChromaRefByte("Cr", pr.x * 8 + pr.blockCol * 4,
                                  pr.y * 8 + pr.blockRow * 4, row, col)

\* The 16x16 luma interpolator has run at phase (0,0) with a non-zero MV and
\* the block it wrote holds the two extreme byte values.
C10_Witness ==
    /\ pr.done /\ pr.kind = "luma16"
    /\ pr.mv.x % 4 = 0 /\ pr.mv.y % 4 = 0 /\ pr.mv # mvZero
    /\ { 0, 255 } \subseteq { ybr[1 + row][8 + col] : row \in 0..15, col \in 0..15 }

\* C11: for every MV whose components are multiples of 4, the luma block
\* interPredictLuma writes equals the luma block copyBlockFromRefWithOffset
\* writes for the offsets (mv.x >> 2, mv.y >> 2), clamped positions included.
C11_IntegerMVEquivalence ==
    (pr.done /\ pr.kind = "luma16" /\ pr.mv.x % 4 = 0 /\ pr.mv.y % 4 = 0) =>
        \A row \in 0..15 : \A col \in 0..15 :
            ybr[1 + row][8 + col] =
                CopyLumaByte(refImg, pr.x, pr.y, pr.mv.x \div 4, pr.mv.y \div 4, row, col)

\* interPredictLuma has run with a negative whole-pixel MV at the left edge of
\* the picture, where the source columns are clamped.
C11_Witness ==
    /\ pr.done /\ pr.kind = "luma16"
    /\ pr.mv.x % 4 = 0 /\ pr.mv.y % 4 = 0
    /\ pr.x = 0 /\ pr.mv.x < 0 /\ pr.mv.y < 0
    /\ ybr[1][8] = ybr[1][9]

\* The reference luma byte in row `row` of the macroblock's rows and k columns
\* from column `col` of its columns, clipped to the picture.
GradientByte(row, col, k) ==
    PlaneY(refImg,
           Clip(pr.y * 16 + row, 0, refImg.maxY - 1) * refImg.yStride
           + Clip(pr.x * 16 + col + k, 0, refImg.maxX - 1))

\* The case of C12: a macroblock predicted with the quarter-pixel MV (1,0)
\* from a reference whose luma is a horizontal gradient.
C12_Case ==
    /\ pr.done /\ pr.kind = "dispatch"
    /\ refImg.present /\ refImg.grad > 0
    /\ mvMode # mvModeSplit /\ mbMV = MV(1, 0)

QuadrantUniform(r, c) ==
    \A dy \in 0..1 : \A dx \in 0..1 :
        subMV[(2 * r + dy) * 4 + 2 * c + dx] = subMV[(2 * r) * 4 + 2 * c]

\* C13: in SPLITMV prediction, when the four luma sub-block MVs of a chroma
\* quadrant all equal M, the chroma MV ((sum + 2) >> 2 per component) equals M,
\* negative components included; the quadrant is then predicted with M.
C13_ChromaAverageRoundTrip ==
    /\ (pr.done /\ pr.kind = "dispatch" /\ refImg.present /\ mvMode = mvModeSplit) =>
          \A r \in 0..1 : \A c \in 0..1 :
              QuadrantUniform(r, c) =>
                  /\ ChromaAvgMV(subMV, r, c) = subMV[(2 * r) * 4 + 2 * c]
                  /\ \A row \in 0..3 : \A col \in 0..3 :
                        ybr[18 + r * 4 + row][8 + c * 4 + col] =
                            ChromaPixel(refImg, "Cb",
                                        subMV[(2 * r) * 4 + 2 * c].x % 8,
                                        subMV[(2 * r) * 4 + 2 * c].y % 8,
                                        pr.x * 8 + c * 4
                                            + (subMV[(2 * r) * 4 + 2 * c].x \div 8) + col,
                                        pr.y * 8 + r * 4
                                            + (subMV[(2 * r) * 4 + 2 * c].y \div 8) + row)
    /\ \A v \in { -32768, -32767, -5, -1, 0, 1, 6, 32767 } :
          ChromaAvgMV(SubUniform(MV(v, -v - 1)), 1, 0) = MV(v, -v - 1)

\* A SPLITMV macroblock was predicted whose quadrants hold different MVs, each
\* the same in its four sub-blocks, one of them with a negative component.
C13_Witness ==
    /\ pr.done /\ pr.kind = "dispatch" /\ refImg.present /\ mvMode = mvModeSplit
    /\ \A r \in 0..1 : \A c \in 0..1 : QuadrantUniform(r, c)
    /\ subMV[0] # subMV[15]
    /\ subMV[0].x < 0

\* The workspace cells of the luma, Cb and Cr regions.
InPredictionRegions(r, c) ==
    \/ (r >= 1 /\ r <= 16 /\ c >= 8 /\ c <= 23)
    \/ (r >= 18 /\ r <= 25 /\ c >= 8 /\ c <= 15)
    \/ (r >= 18 /\ r <= 25 /\ c >= 24 /\ c <= 31)

\* C14: when the reference frame tag resolves to no stored frame,
\* performInterPrediction sets every byte of the luma region and of both chroma
\* regions to 128, for every MV mode including SPLIT.
C14_MissingReferenceGray ==
    (pr.done /\ pr.kind = "dispatch" /\ ~refImg.present) =>
        \A r \in 0..25 : \A c \in 0..31 :
            InPredictionRegions(r, c) => ybr[r][c] = 128

\* A SPLITMV macroblock without reference frame was predicted over a workspace
\* that held other bytes.
C14_Witness ==
    /\ pr.done /\ pr.kind = "dispatch" /\ ~refImg.present
    /\ mvMode = mvModeSplit
    /\ pr.before = UsedWorkspace
    /\ ybr[25][31] = 128 /\ ybr[1][8] = 128

LongMagnitudeOfSpec(bs) ==
    BitAt(bs, 2) * 512 + BitAt(bs, 3) * 256 + BitAt(bs, 4) * 128
    + BitAt(bs, 5) * 64 + BitAt(bs, 6) * 32 + BitAt(bs, 7) * 16 + BitAt(bs, 8) * 8
    + BitAt(bs, 9) * 4 + BitAt(bs, 10) * 2 + BitAt(bs, 11) + 8

\* C17: on the long path readMVComponent reads three bits with p[9], p[10],
\* p[11] into positions 9, 8, 7, then seven bits with p[12]..p[18] into
\* positions 6..0, then adds 8, using each of p[9..18] exactly once.
C17_LongPath ==
    (mvRead.done /\ mvRead.bits[1] = 1) =>
        /\ mvRead.comps[1].r.probs =
              << mvpIsShort, 9, 10, 11, 12, 13, 14, 15, 16, 17, 18, mvpSign >>
        /\ Abs(mvRead.comps[1].r.v) = LongMagnitudeOfSpec(mvRead.bits)

\* The row of the mode probability table for a pair of candidates, written
\* out case by case.
ExpectedModeRow(nearest, near) ==
    IF nearest # mvZero
    THEN (IF near # mvZero THEN <<7, 1, 1, 143>> ELSE <<14, 18, 14, 107>>)
    ELSE (IF near # mvZero THEN <<135, 145, 67, 106>> ELSE <<8, 75, 40, 155>>)

\* C18: parseMVMode reads up to four bits with
\* mvModeProb[nearestZero][nearZero][0..3], deciding ZERO, NEAREST, NEAR, NEW,
\* SPLIT in that order, and sets mbMV to (0,0), clampMV(nearest),
\* clampMV(near) and clampMV(nearest + delta) in the first four modes.
C18_ModeTree ==
    (fb.done /\ fb.inter) =>
        /\ fb.probs = SubSeq(ExpectedModeRow(fb.nearest, fb.near), 1, Len(fb.tree))
        /\ fb.tree = <<0>> <=> mvMode = mvModeZero
        /\ fb.tree = <<1, 0>> <=> mvMode = mvModeNearest
        /\ fb.tree = <<1, 1, 0>> <=> mvMode = mvModeNear
        /\ fb.tree = <<1, 1, 1, 0>> <=> mvMode = mvModeNew
        /\ fb.tree = <<1, 1, 1, 1>> <=> mvMode = mvModeSplit
        /\ mvMode = mvModeZero => mbMV = mvZero
        /\ mvMode = mvModeNearest => mbMV = clampMV(fb.nearest, fb.x, fb.y, mbw, mbh)
        /\ mvMode = mvModeNear => mbMV = clampMV(fb.near, fb.x, fb.y, mbw, mbh)
        /\ mvMode = mvModeNew =>
              mbMV = clampMV(addMV(fb.nearest, fb.delta), fb.x, fb.y, mbw, mbh)

\* A NEW macroblock with a non-zero delta whose nearest candidate is non-zero
\* and whose near candidate is zero.
C18_Witness ==
    /\ fb.done /\ fb.inter /\ mvMode = mvModeNew
    /\ fb.nearest # mvZero /\ fb.near = mvZero /\ fb.delta # mvZero
    /\ fb.probs = <<14, 18, 14, 107>>
    /\ mbMV # fb.nearest

\* The sub-MVs of the macroblock decoded last, as a neighbour sees them: its
\* sixteen sub-MVs after SPLIT, its MV in every block otherwise.
NeighbourSubMVs == IF mvMode = mvModeSplit THEN subMV ELSE [b \in 0..15 |-> mbMV]

\* parseSplitMV on the bits bs of a macroblock at (x, y), with the left and
\* above MVs of the edge rows and columns taken from leftMVs and aboveMVs.
SplitWithEdges(st, bs, x, y, nearest, leftMVs, aboveMVs) ==
    SplitLoop(0, st.t, [b \in 0..15 |-> mvZero], Drop(bs, st.n), st.n,
              leftMVs, aboveMVs, nearest, x, y, mbw, mbh, <<>>).sub

\* The bits of parseSplitMV in the bits of an inter macroblock: what follows
\* the intra bit, the reference frame and the four bits of the mode.
SplitBitsOf(bits) == Drop(bits, 1 + parseRefFrame(Drop(bits, 1)).n + 4)

\* C20: in parseSplitMV the left-MV of a partition whose first block is in
\* column 0 is the left macroblock's right-edge sub-MV of the same block row
\* (blocks 3, 7, 11, 15), or zero when the left macroblock is INTRA or
\* mbx = 0; the above-MV of a first block in row 0 is the above macroblock's
\* bottom-edge sub-MV of the same column (blocks 12, 13, 14, 15), or zero.
\* Stated for a macroblock whose left (mbw = 2) or above (mbw = 1) neighbour
\* is the macroblock decoded just before it.
C20_EdgeSubMVs ==
    [][\A bits \in SplitInputs :
          (DecodeMB(bits) /\ isInterMB' /\ mvMode' = mvModeSplit) =>
              subMV' = SplitWithEdges(
                          SplitTypeOf(SplitBitsOf(bits)), SplitBitsOf(bits),
                          mbx, mby, fb'.nearest,
                          [r \in 0..3 |->
                              IF mbx > 0 /\ leftRefFrame # refFrameIntra
                              THEN NeighbourSubMVs[4 * r + 3] ELSE mvZero],
                          [c \in 0..3 |->
                              IF mby > 0 /\ aboveRefFrame[mbx] # refFrameIntra
                              THEN NeighbourSubMVs[12 + c] ELSE mvZero])]_vars

\* The bit of the call at offset i (from 0).
SplitBit(i) == BitAt(splitRead.bits, i + 1)

\* The sub-MV mode that the bits of the call spell at offset at.
SubModeAt(at) ==
    IF SplitBit(at) = 0 THEN subMVLeft
    ELSE IF SplitBit(at + 1) = 0 THEN subMVAbove
    ELSE IF SplitBit(at + 2) = 0 THEN subMVZero
    ELSE subMVNew

BlocksOf(part) == { part.blocks[i] : i \in 1..Len(part.blocks) }

\* C21: parseSplitMV decodes the partition type with at most three bits read
\* with mbSplitProb[0..2]: 0 is 4x4 (16 partitions), 1 0 is 8x8 (4), 1 1 0 is
\* 16x8 (blocks 0..7 and 8..15), 1 1 1 is 8x16 (block columns 0-1 and 2-3);
\* then exactly one sub-MV mode is decoded per partition, in partition order.
C21_PartitionTree ==
    splitRead.done =>
        /\ SplitBit(0) = 0 =>
              /\ splitRead.splitType = splitMV4x4 /\ splitRead.typeProbs = <<110>>
              /\ Len(splitRead.parts) = 16
        /\ (SplitBit(0) = 1 /\ SplitBit(1) = 0) =>
              /\ splitRead.splitType = splitMV8x8 /\ splitRead.typeProbs = <<110, 111>>
              /\ Len(splitRead.parts) = 4
        /\ (SplitBit(0) = 1 /\ SplitBit(1) = 1 /\ SplitBit(2) = 0) =>
              /\ splitRead.splitType = splitMV16x8
              /\ splitRead.typeProbs = <<110, 111, 150>>
              /\ Len(splitRead.parts) = 2
              /\ BlocksOf(splitRead.parts[1]) = 0..7
              /\ BlocksOf(splitRead.parts[2]) = 8..15
        /\ (SplitBit(0) = 1 /\ SplitBit(1) = 1 /\ SplitBit(2) = 1) =>
              /\ splitRead.splitType = splitMV8x16
              /\ splitRead.typeProbs = <<110, 111, 150>>
              /\ Len(splitRead.parts) = 2
              /\ BlocksOf(splitRead.parts[1]) = { b \in 0..15 : b % 4 \in {0, 1} }
              /\ BlocksOf(splitRead.parts[2]) = { b \in 0..15 : b % 4 \in {2, 3} }
        /\ splitRead.typeBits = Len(splitRead.typeProbs)
        /\ \A i \in 1..Len(splitRead.parts) :
              /\ splitRead.parts[i].p = i - 1
              /\ splitRead.parts[i].at =
                    IF i = 1 THEN splitRead.typeBits
                    ELSE splitRead.parts[i - 1].at + splitRead.parts[i - 1].n
              /\ splitRead.parts[i].mode = SubModeAt(splitRead.parts[i].at)
        /\ splitRead.n = splitRead.parts[Len(splitRead.parts)].at
                         + splitRead.parts[Len(splitRead.parts)].n

\* A 16x8 call whose two partitions were decoded with different modes.
C21_Witness ==
    /\ splitRead.done /\ splitRead.splitType = splitMV16x8
    /\ Len(splitRead.parts) = 2
    /\ splitRead.parts[1].mode = subMVNew /\ splitRead.parts[2].mode = subMVLeft
    /\ splitRead.n = Len(splitRead.bits)

\* The places (partition, position) of a partition table that name block b.
TablePlaces(t, b) ==
    { pl \in (1..mbSplitCount[t + 1]) \X (1..16) :
          /\ pl[2] <= Len(mbSplitFillOffset[t + 1][pl[1]])
          /\ mbSplitFillOffset[t + 1][pl[1]][pl[2]] = b }

\* The assignments to d.subMV[b] that the call made.
AssignmentsTo(b) ==
    { pl \in (1..Len(splitRead.parts)) \X (1..16) :
          /\ pl[2] <= Len(splitRead.parts[pl[1]].blocks)
          /\ splitRead.parts[pl[1]].blocks[pl[2]] = b }

\* C26: each of the four partition tables names every block 0..15 exactly
\* once, so parseSplitMV assigns every entry of subMV exactly once, with a
\* value returned by clampMV for (mbx, mby); no entry keeps the value of an
\* earlier macroblock or the zero it was reset to.
C26_EveryBlockAssignedOnce ==
    /\ \A t \in 0..3 : \A b \in 0..15 : Cardinality(TablePlaces(t, b)) = 1
    /\ splitRead.done =>
          \A b \in 0..15 :
              /\ Cardinality(AssignmentsTo(b)) = 1
              /\ \A pl \in AssignmentsTo(b) :
                    /\ splitRead.subMV[b] = splitRead.parts[pl[1]].mv
                    /\ splitRead.parts[pl[1]].mv =
                          clampMV(splitRead.parts[pl[1]].raw, splitRead.x, splitRead.y,
                                  mbw, mbh)
              /\ subMV[b] = splitRead.subMV[b]

\* An 8x8 call on a decoder whose subMV held the sub-MVs of an earlier
\* macroblock, and that left a non-zero MV in block 15 and zero in block 0.
C26_Witness ==
    /\ splitRead.done /\ splitRead.splitType = splitMV8x8
    /\ splitRead.before = StaleSubMV
    /\ subMV[15] # mvZero /\ subMV[0] = mvZero
    /\ \A b \in 0..15 : subMV[b] # StaleSubMV[b]

\* The partition of a table that holds block b, counted from 1.
TablePartitionOf(t, b) ==
    CHOOSE p \in 1..mbSplitCount[t + 1] :
        \E k \in 1..Len(mbSplitFillOffset[t + 1][p]) : mbSplitFillOffset[t + 1][p][k] = b

\* C27: whenever parseSplitMV takes a partition's left MV from
\* subMV[firstBlock-1] or its above MV from subMV[firstBlock-4], that block
\* belongs to a partition handled earlier in the same macroblock, and the
\* value read is that partition's clamped sub-MV.
C27_ContextFromEarlierPartition ==
    /\ \A t \in 0..3 : \A p \in 1..mbSplitCount[t + 1] :
          /\ mbSplitFillOffset[t + 1][p][1] % 4 # 0 =>
                TablePartitionOf(t, mbSplitFillOffset[t + 1][p][1] - 1) < p
          /\ mbSplitFillOffset[t + 1][p][1] \div 4 # 0 =>
                TablePartitionOf(t, mbSplitFillOffset[t + 1][p][1] - 4) < p
    /\ splitRead.done =>
          \A i \in 1..Len(splitRead.parts) :
              /\ splitRead.parts[i].first % 4 # 0 =>
                    \E j \in 1..(i - 1) :
                        /\ (splitRead.parts[i].first - 1) \in BlocksOf(splitRead.parts[j])
                        /\ splitRead.parts[i].left = splitRead.parts[j].mv
              /\ splitRead.parts[i].first \div 4 # 0 =>
                    \E j \in 1..(i - 1) :
                        /\ (splitRead.parts[i].first - 4) \in BlocksOf(splitRead.parts[j])
                        /\ splitRead.parts[i].above = splitRead.parts[j].mv

\* An 8x8 call whose last partition took a non-zero left MV from the third
\* partition and a different non-zero above MV from the second.
C27_Witness ==
    /\ splitRead.done /\ splitRead.splitType = splitMV8x8
    /\ splitRead.parts[4].left = splitRead.parts[3].mv
    /\ splitRead.parts[4].above = splitRead.parts[2].mv
    /\ splitRead.parts[4].left # mvZero /\ splitRead.parts[4].above # mvZero
    /\ splitRead.parts[4].left # splitRead.parts[4].above

\* Candidate lists of up to three MVs, as findBestMV hands them to its
\* selection loop.
CandidateMVs == { mvZero, MV(4, 0), MV(-8, 12), MV(-32768, 4) }

CandidateLists ==
    { <<>> } \cup { <<a>> : a \in CandidateMVs }
    \cup { <<a, b>> : a \in CandidateMVs, b \in CandidateMVs }
    \cup { <<a, b, c>> : a \in CandidateMVs, b \in CandidateMVs, c \in CandidateMVs }

NearImpliesNearest(nearest, near) ==
    near # mvZero => (nearest # mvZero /\ near # nearest)

SelectionOrdered ==
    \A cs \in CandidateLists :
        NearImpliesNearest(SelectLoop([nearest |-> mvZero, near |-> mvZero], cs, 1).nearest,
                           SelectLoop([nearest |-> mvZero, near |-> mvZero], cs, 1).near)

\* C28: findBestMV never returns a non-zero near with a zero nearest, nor a
\* near equal to nearest, so parseMVMode never reads the mode with the row
\* mvModeProb[1][0] (nearest zero, near non-zero).
C28_NearImpliesNearest ==
    /\ SelectionOrdered
    /\ (fb.done /\ fb.inter) =>
          /\ NearImpliesNearest(fb.nearest, fb.near)
          /\ fb.probs # SubSeq(<<135, 145, 67, 106>>, 1, Len(fb.probs))

\* A macroblock with two different non-zero candidates.
C28_Witness ==
    /\ fb.done /\ fb.inter
    /\ fb.nearest # mvZero /\ fb.near # mvZero /\ fb.near # fb.nearest
    /\ fb.probs = SubSeq(<<7, 1, 1, 143>>, 1, Len(fb.probs))
    /\ Len(fb.cands) = 3

\* The 7-bit value that the bits of the last parseMVProb call spell at
\* offset at (from 0), the most significant bit first.
ProbValueAt(at) ==
    probRead.bits[at + 1] * 64 + probRead.bits[at + 2] * 32 + probRead.bits[at + 3] * 16
    + probRead.bits[at + 4] * 8 + probRead.bits[at + 5] * 4 + probRead.bits[at + 6] * 2
    + probRead.bits[at + 7]

\* C24: parseMVProb visits the 38 entries in the order [0][0..18], [1][0..18],
\* reading one flag per entry with mvUpdateProb[i][j]; a flagged entry
\* becomes v << 1 for the 7-bit value v that follows, or 1 if v = 0; an
\* unflagged entry is unchanged and costs no further bit.
C24_ProbUpdateOrder ==
    probRead.done =>
        /\ Len(probRead.visits) = 38
        /\ \A k \in 1..38 :
              /\ probRead.visits[k].i = (k - 1) \div 19
              /\ probRead.visits[k].j = (k - 1) % 19
              /\ probRead.visits[k].prob = mvUpdateProb[((k - 1) \div 19) + 1][((k - 1) % 19) + 1]
              /\ probRead.visits[k].at =
                    IF k = 1 THEN 0
                    ELSE probRead.visits[k - 1].at
                         + (IF probRead.visits[k - 1].flag = 1 THEN 8 ELSE 1)
              /\ probRead.visits[k].flag = probRead.bits[probRead.visits[k].at + 1]
              /\ probRead.visits[k].flag = 1 =>
                    /\ probRead.visits[k].v = ProbValueAt(probRead.visits[k].at + 1)
                    /\ mvProb[((k - 1) \div 19) + 1][((k - 1) % 19) + 1] =
                          IF probRead.visits[k].v = 0 THEN 1 ELSE probRead.visits[k].v * 2
              /\ probRead.visits[k].flag = 0 =>
                    mvProb[((k - 1) \div 19) + 1][((k - 1) % 19) + 1] =
                        probRead.before[((k - 1) \div 19) + 1][((k - 1) % 19) + 1]
        /\ probRead.n = probRead.visits[38].at
                        + (IF probRead.visits[38].flag = 1 THEN 8 ELSE 1)
        /\ probRead.n = Len(probRead.bits)

\* A call that updated entries [0][1] and [1][1] with the value 64 and left
\* the others, on a table that an earlier call had changed.
C24_Witness ==
    /\ probRead.done /\ nProbCalls = 2
    /\ probRead.before # defaultMVProb
    /\ probRead.visits[2].flag = 1 /\ probRead.visits[21].flag = 1
    /\ probRead.visits[1].flag = 0 /\ probRead.visits[38].flag = 0
    /\ mvProb[1][2] = 128 /\ mvProb[2][2] = 128
    /\ probRead.n = 52

\* The chroma byte that interPredictChroma computes for cell (row, col) of the
\* 8x8 block of plane: the bilinear interpolation at base position
\* (mbx*8 + floor(mvx/8), mby*8 + floor(mvy/8)) with phases mvx mod 8, mvy mod 8.
BilinearChromaByte(plane, row, col) ==
    ChromaPixel(refImg, plane, mbMV.x % 8, mbMV.y % 8,
                mbx * 8 + (mbMV.x \div 8) + col, mby * 8 + (mbMV.y \div 8) + row)

\* C22: for a non-SPLIT inter macroblock with a present reference, whichever
\* path performInterPrediction takes, every chroma byte it writes is the
\* bilinear interpolation that interPredictChroma computes for the same MV.
C22_ChromaPathsAgree ==
    (pr.done /\ refImg.present /\ mvMode # mvModeSplit) =>
        \A row \in 0..7 : \A col \in 0..7 :
            /\ ybr[18 + row][8 + col] = BilinearChromaByte("Cb", row, col)
            /\ ybr[18 + row][24 + col] = BilinearChromaByte("Cr", row, col)

\* The exact sum of the six horizontal taps around column x of row y.
ExactHorizontalSum(filterX, x, y) ==
    subpelFilter[filterX + 1][1] * RefY(refImg, x - 2, y)
    + subpelFilter[filterX + 1][2] * RefY(refImg, x - 1, y)
    + subpelFilter[filterX + 1][3] * RefY(refImg, x, y)
    + subpelFilter[filterX + 1][4] * RefY(refImg, x + 1, y)
    + subpelFilter[filterX + 1][5] * RefY(refImg, x + 2, y)
    + subpelFilter[filterX + 1][6] * RefY(refImg, x + 3, y)

\* The output byte that the exact intermediate values give.
ExactLumaPixel(filterX, filterY, x, y) ==
    clip255(IF filterY = 0
            THEN (ExactHorizontalSum(filterX, x, y) + 64) \div 128
            ELSE (subpelFilter[filterY + 1][1] * ExactHorizontalSum(filterX, x, y - 2)
                  + subpelFilter[filterY + 1][2] * ExactHorizontalSum(filterX, x, y - 1)
                  + subpelFilter[filterY + 1][3] * ExactHorizontalSum(filterX, x, y)
                  + subpelFilter[filterY + 1][4] * ExactHorizontalSum(filterX, x, y + 1)
                  + subpelFilter[filterY + 1][5] * ExactHorizontalSum(filterX, x, y + 2)
                  + subpelFilter[filterY + 1][6] * ExactHorizontalSum(filterX, x, y + 3)
                  + 8192) \div 16384)

\* The size of the luma block of the last call, and its top left corner in
\* the reference before the MV is applied.
LumaBlockSize == IF pr.kind = "luma16" THEN 16 ELSE 4
LumaBlockX == pr.x * 16 + pr.blockCol * 4 + (pr.mv.x \div 4)
LumaBlockY == pr.y * 16 + pr.blockRow * 4 + (pr.mv.y \div 4)

\* C23: in the horizontal pass of the luma interpolators (16x16 and 4x4),
\* with a filter index in {2, 4, 6}, the 16-bit intermediate value is the
\* exact sum of the six products, and the output byte is the one the exact
\* intermediate values give.
C23_HorizontalSumExact ==
    (pr.done /\ pr.kind \in {"luma16", "luma4"} /\ pr.mv.x % 4 # 0) =>
        \A row \in 0..(LumaBlockSize - 1) : \A col \in 0..(LumaBlockSize - 1) :
            /\ \A t \in -2..3 :
                  LumaTemp(refImg, (pr.mv.x % 4) * 2, LumaBlockX + col, LumaBlockY + row + t)
                  = ExactHorizontalSum((pr.mv.x % 4) * 2, LumaBlockX + col,
                                       LumaBlockY + row + t)
            /\ ybr[1 + pr.blockRow * 4 + row][8 + pr.blockCol * 4 + col]
               = ExactLumaPixel((pr.mv.x % 4) * 2, (pr.mv.y % 4) * 2,
                                LumaBlockX + col, LumaBlockY + row)

(***************************************************************************)
(* C25: each time an inter macroblock names a reference frame that is not *)
(* stored, performInterPrediction increments a diagnostic counter of the  *)
(* decoder, exactly once, in addition to filling the three regions with   *)
(* 128.  A counter is decoder state outside the workspace d.ybr, so a     *)
(* call on the missing-reference branch changes some decoder field other  *)
(* than d.ybr.  Lines 292-307 assign d.ybr[..][..] = 128 and return.      *)
(***************************************************************************)
DecoderFieldsOutsideWorkspace ==
    <<mbw, mbh, signBias, mbx, mby, leftRefFrame, leftMV, aboveRefFrame, aboveMV,
      upRefFrame, upMV, refFrame, isInterMB, mvMode, mbMV, subMV, mvProb, refImg>>

C25_MissingReferenceCounted ==
    [][(PerformInterPrediction /\ ~refImg.present)
          => DecoderFieldsOutsideWorkspace' # DecoderFieldsOutsideWorkspace]_vars

\* The indices into ref.Y that one interpolated block of size n reads: source
\* rows -2..n+2 around (baseX, baseY), and columns 0..n-1 at an integer
\* horizontal position, -2..n+2 otherwise (lines 85-119 and 427-456).
InterpolatedLumaReads(img, baseX, baseY, filterX, n) ==
    { LumaIndex(img, baseX + c, baseY + r) :
        c \in (IF filterX = 0 THEN 0..(n - 1) ELSE (-2)..(n + 2)), r \in (-2)..(n + 2) }

\* Lines 401-420: a 4x4 block at an integer position reads its 16 pixels.
Luma4Reads(img, baseX, baseY, mv) ==
    IF mv.x % 4 = 0 /\ mv.y % 4 = 0
    THEN { LumaIndex(img, baseX + (mv.x \div 4) + c, baseY + (mv.y \div 4) + r) :
             c \in 0..3, r \in 0..3 }
    ELSE InterpolatedLumaReads(img, baseX + (mv.x \div 4), baseY + (mv.y \div 4),
                               (mv.x % 4) * 2, 4)

\* Every index used to read ref.Y by a call of performInterPrediction.
LumaReads(img, x, y, mode, mv, sub) ==
    IF mode = mvModeSplit
    THEN UNION { Luma4Reads(img, x * 16 + (b % 4) * 4, y * 16 + (b \div 4) * 4, sub[b]) :
                   b \in 0..15 }
    ELSE IF TakesCopyPath(img, mode, mv)
    THEN { CopyLumaIndex(img, x, y, mv.x \div 4, mv.y \div 4, r, c) : r \in 0..15, c \in 0..15 }
    ELSE InterpolatedLumaReads(img, x * 16 + (mv.x \div 4), y * 16 + (mv.y \div 4),
                               (mv.x % 4) * 2, 16)

\* The indices into ref.Cb and ref.Cr that the bilinear interpolation of an
\* n x n chroma block reads: x0, x0 + 1, y0, y0 + 1 for each cell.
InterpolatedChromaReads(img, baseX, baseY, n) ==
    { ChromaIndex(img, baseX + c, baseY + r) : c \in 0..n, r \in 0..n }

\* Every index used to read ref.Cb and ref.Cr by a call.
ChromaReads(img, x, y, mode, mv, sub) ==
    IF mode = mvModeSplit
    THEN UNION { InterpolatedChromaReads(
                     img, x * 8 + (q % 2) * 4 + (ChromaAvgMV(sub, q \div 2, q % 2).x \div 8),
                     y * 8 + (q \div 2) * 4 + (ChromaAvgMV(sub, q \div 2, q % 2).y \div 8), 4) :
                   q \in 0..3 }
    ELSE IF TakesCopyPath(img, mode, mv)
    THEN { CopyChromaIndex(img, x, y, mv.x \div 4, mv.y \div 4, r, c) : r \in 0..7, c \in 0..7 }
    ELSE InterpolatedChromaReads(img, x * 8 + (mv.x \div 8), y * 8 + (mv.y \div 8), 8)

\* The luma part: each index is inside the plane, in a column below the width
\* and a row below the height.
LumaReadsInside ==
    \A i \in LumaReads(refImg, pr.x, pr.y, mvMode, mbMV, subMV) :
        /\ i >= 0 /\ i < LumaLen(refImg)
        /\ i % refImg.yStride < refImg.maxX
        /\ i \div refImg.yStride < refImg.maxY

ChromaReadsInside ==
    \A i \in ChromaReads(refImg, pr.x, pr.y, mvMode, mbMV, subMV) :
        i >= 0 /\ i < ChromaLen(refImg)

\* C29: for a reference frame of width and height at least 1, with Rect.Min at
\* the origin, YStride >= width, CStride >= ceil(width / 2) and planes of stride
\* x rows bytes, every index that a call of performInterPrediction uses to read
\* ref.Y, ref.Cb or ref.Cr is at least 0 and below the length of the plane, and
\* the luma reads stay inside columns 0..width-1 and rows 0..height-1.
C29_ReadsInsidePlanes ==
    (pr.kind \in { "dispatch", "panic" } /\ refImg.present) =>
        LumaReadsInside /\ ChromaReadsInside

\* The parts of C29 that the source keeps: the luma reads of every path, and
\* the chroma reads of the interpolating paths.
LumaReadsStayInside ==
    (pr.kind \in { "dispatch", "panic" } /\ refImg.present) => LumaReadsInside

InterpolatedChromaReadsStayInside ==
    (pr.kind = "dispatch" /\ refImg.present /\ ~TakesCopyPath(refImg, mvMode, mbMV))
        => ChromaReadsInside

\* The three regions of the workspace hold the constants of a flat reference.
FlatPrediction ==
    /\ \A row \in 0..15 : \A col \in 0..15 : ybr[1 + row][8 + col] = refImg.pat
    /\ \A row \in 0..7 : \A col \in 0..7 :
          /\ ybr[18 + row][8 + col] = FlatCb(refImg)
          /\ ybr[18 + row][24 + col] = FlatCr(refImg)

\* C30: when the reference luma plane is the constant c and the chroma planes
\* are the constants cb and cr, then for every MV and mode, fractional MVs and
\* SPLITMV included, performInterPrediction writes c to every cell of the luma
\* region and cb and cr to every cell of the Cb and Cr regions, although
\* 16-bit partial sums of the horizontal pass may wrap.
C30_FlatReferenceFlatPrediction ==
    (pr.kind \in { "dispatch", "panic" } /\ refImg.present /\ refImg.flat)
        => FlatPrediction

\* The sum of the first t taps of a filter.
RECURSIVE TapSum(_, _)
TapSum(filterX, t) ==
    IF t = 0 THEN 0 ELSE subpelFilter[filterX + 1][t] + TapSum(filterX, t - 1)

\* A partial sum of the horizontal pass over the constant c is outside int16.
PartialSumWraps(filterX, c) == \E t \in 1..6 : c * TapSum(filterX, t) > 32767

\* The part of C30 that the source keeps: every call that returns writes the
\* constants, also where partial sums wrap.
FlatPredictionWhenReturning ==
    (pr.kind = "dispatch" /\ refImg.present /\ refImg.flat) => FlatPrediction

WrappingFlatPrediction ==
    /\ pr.kind = "dispatch" /\ refImg.flat /\ refImg.pat = 255
    /\ mvMode # mvModeSplit /\ mbMV.x % 4 # 0 /\ mbMV.y % 4 # 0
    /\ PartialSumWraps((mbMV.x % 4) * 2, refImg.pat)
    /\ pr.before[1][8] # 255 /\ FlatPrediction

====
